---------------------------- MODULE Spec2Model ----------------------------
(***************************************************************************)
(* A model of the chemetroller control core:                               *)
(*   - classes.PredictionHandler / classes.PIDHandler  (the PID-bounded    *)
(*     dispense loop and its log), and                                     *)
(*   - pump.Pump_Serial / pump.Pump / pump.VPump  (the serial pump link).  *)
(*                                                                         *)
(* Units.  Volumes are integers in hundredths of a mL (trigger_PID rounds  *)
(* the PID output to two decimals), pump speeds are integers in hundredths *)
(* of an rpm, revolution counts are integers in thousandths of a           *)
(* revolution, so that round(rpm, 1) and round(rev, 2) are real            *)
(* conversions in the model.                                               *)
(***************************************************************************)
EXTENDS Integers, Sequences, FiniteSets, TLC

VARIABLES
    \* ---- classes.PredictionHandler
    pred_num_event,   \* PredictionHandler.num_event
    pred_labels,      \* PredictionHandler.labels (None until the first event)
    pred_dates,       \* PredictionHandler.ref_dates[:num_event]
    pred_values,      \* PredictionHandler.pred_values[:num_event, :]
    \* ---- classes.PIDHandler
    vol,              \* PIDHandler.vol[:num_event] (the rest of the array is 0)
    num_event,        \* PIDHandler.num_event
    max_vol,          \* PIDHandler.max_vol
    track_idx,        \* PIDHandler.track_idx
    pid,              \* PIDHandler.pid (the simple_pid.PID object's settings)
    pid_calls,        \* number of times PIDHandler.pid(value) was invoked
    log,              \* the records appended to log_file after the header
    animated,         \* number of plotter.animate(pid_handler) notifications
    last_tick,        \* what the last trigger_PID call did: "none" before the
                      \* first call, then "recorded" or "noop"
    last_raw,         \* <<vol>> as trigger_PID had it before the ceiling check,
                      \* for the last tick that recorded an output
    last_feed,        \* what the last on_create_mod call since the last
                      \* trigger_PID call did: "stored" or "missing"; "none"
                      \* when there was no such call
    \* ---- pump.Pump_Serial
    pump_dict,        \* Pump_Serial.pump_dict
    wire,             \* what the last call wrote to / read from serial_dev
    call,             \* the last Pump_Serial call: operation, arguments, outcome
    prev_dict,        \* pump_dict as it was when the last call started
    disp,             \* the dispense_vol coroutine of a virtual pump: where it
                      \* is, its locals, all the I/O it has performed and
                      \* what its polls of pump 1 returned
    \* ---- gui.PumpTab
    tab               \* PumpTab.num_pumps and the virtual-pump rows of its grid:
                      \* the id on the row's label and the pumps its menus offer

pidVars == <<pred_num_event, pred_labels, pred_dates, pred_values, vol, num_event,
             max_vol, track_idx, pid, pid_calls, log, animated, last_tick, last_raw,
             last_feed>>

pumpVars == <<pump_dict, wire, call, prev_dict, disp, tab>>

vars == <<pidVars, pumpVars>>

\* Python's None, for a string-valued, an integer-valued and a list-valued
\* attribute.
None == "None"

NoInt == -1

NoList == <<>>

(***************************************************************************)
(* Bounds of the model.                                                    *)
(***************************************************************************)
\* Prediction-feed events the model lets happen.
MaxFeed == 2

(***************************************************************************)
(* Helpers.                                                                *)
(***************************************************************************)
Max(a, b) == IF a >= b THEN a ELSE b

Min(a, b) == IF a <= b THEN a ELSE b

RECURSIVE SumSeq(_)
\* np.sum over the recorded part of an array.
SumSeq(s) == IF s = <<>> THEN 0 ELSE s[1] + SumSeq(Tail(s))

\* list.index(x): the first position (0-based) of x, or NoInt (ValueError).
IndexOf(s, x) ==
    IF \E i \in 1..Len(s) : s[i] = x
    THEN (CHOOSE i \in 1..Len(s) : s[i] = x /\ \A j \in 1..(i - 1) : s[j] # x) - 1
    ELSE NoInt

\* int(track): the operator's text read as an integer, or NoInt (ValueError).
ParseInt(t) ==
    CASE t = "0" -> 0
      [] t = "1" -> 1
      [] OTHER   -> NoInt

(***************************************************************************)
(* classes.PredictionHandler                                               *)
(***************************************************************************)
\* The header of the AutoSave file.
Labels == <<"Glucose", "Xylose">>

\* The predicted-value rows a last line can carry.
Rows == {<<30, 45>>, <<50, 35>>}

\* PredictionHandler.get_values()
PredGetValues == <<pred_dates, pred_values>>

\* PredictionHandler.get_labels()
PredGetLabels == pred_labels

\* PredictionHandler.on_create_mod with a readable last line: the header is
\* read on the first event, the row is stored at index num_event and the
\* counter is advanced.  The timestamp of the k-th record is k.
FeedUpdate ==
    /\ pred_num_event < MaxFeed
    /\ \E row \in Rows :
         /\ pred_labels' = IF pred_num_event < 1 THEN Labels ELSE pred_labels
         /\ pred_dates' = Append(pred_dates, pred_num_event + 1)
         /\ pred_values' = Append(pred_values, row)
         /\ pred_num_event' = pred_num_event + 1
    /\ last_feed' = "stored"
    /\ UNCHANGED <<vol, num_event, max_vol, track_idx, pid, pid_calls, log, animated,
                   last_tick, last_raw>>
    /\ UNCHANGED pumpVars

\* An anomaly that advances the counter all the same: the row of zeros the
\* arrays were allocated with becomes a measurement.
FeedMissing_CounterAdvanced ==
    /\ pred_num_event < MaxFeed
    /\ pred_labels' = IF pred_num_event < 1 THEN Labels ELSE pred_labels
    /\ pred_dates' = Append(pred_dates, 0)
    /\ pred_values' = Append(pred_values, <<0, 0>>)
    /\ pred_num_event' = pred_num_event + 1
    /\ last_feed' = "missing"
    /\ UNCHANGED <<vol, num_event, max_vol, track_idx, pid, pid_calls, log, animated,
                   last_tick, last_raw>>
    /\ UNCHANGED pumpVars

\* PredictionHandler.on_create_mod when read_last_line raises IndexError
\* (InStep reported the file missing): the header may have been read, nothing
\* else is stored.
FeedMissing ==
    /\ pred_labels' = IF pred_num_event < 1 THEN Labels ELSE pred_labels
    /\ UNCHANGED <<pred_num_event, pred_dates, pred_values>>
    /\ last_feed' = "missing"
    /\ UNCHANGED <<vol, num_event, max_vol, track_idx, pid, pid_calls, log, animated,
                   last_tick, last_raw>>
    /\ UNCHANGED pumpVars

(***************************************************************************)
(* classes.PIDHandler                                                      *)
(***************************************************************************)
\* The ceiling the handler is constructed with (10 mL).
InitMaxVol == 1000

\* The PID as simple_pid builds it when auto_mode is not passed: enabled.
InitPID_AutoModeDefault ==
    [auto_mode |-> TRUE, setpoint |-> 40, tunings |-> <<1, 100, 0>>,
     output_limits |-> <<0, 2000>>, proportional_on_measurement |-> TRUE]

\* simple_pid.PID(0.001, 0.1, 0, setpoint=40, output_limits=(0, 20),
\*                proportional_on_measurement=True, auto_mode=False)
\* Gains are in thousandths, limits in hundredths of a mL.
InitPID ==
    [auto_mode |-> FALSE, setpoint |-> 40, tunings |-> <<1, 100, 0>>,
     output_limits |-> <<0, 2000>>, proportional_on_measurement |-> TRUE]

\* Values of round(pid(value), 2) the model samples besides the two limits.
PIDSamples == {500, 900}

\* round(self.pid(value), 2): simple_pid clamps its output to output_limits;
\* the value inside the limits depends on the gains, the error history and
\* the wall-clock time between calls, so every sampled value inside the
\* limits is a possible output.
PIDOutputs(p) ==
    {r \in PIDSamples \cup {p.output_limits[1], p.output_limits[2]} :
        p.output_limits[1] <= r /\ r <= p.output_limits[2]}

\* np.average(pred_handler.get_values()[1][-4:, track_idx]) as <<sum, count>>.
LastValues(values, idx) ==
    LET n == Len(values)
        lastFour == SubSeq(values, Max(1, n - 3), n)
    IN  [i \in 1..Len(lastFour) |-> lastFour[i][idx + 1]]

Average(values, idx) ==
    <<SumSeq(LastValues(values, idx)), Len(LastValues(values, idx))>>

\* PIDHandler.get_tracking()
GetTracking(labels, idx) == IF labels = NoList THEN ToString(idx) ELSE labels[idx + 1]

\* PIDHandler.get_status()
GetStatus(p, labels, idx, ceiling) ==
    [status |-> IF p.auto_mode THEN "Enabled" ELSE "Disabled",
     tracking |-> GetTracking(labels, idx),
     setpoint |-> p.setpoint,
     tunings |-> p.tunings,
     output_limits |-> p.output_limits,
     max_vol |-> ceiling,
     pom |-> IF p.proportional_on_measurement THEN "Enabled" ELSE "Disabled"]

\* A ceiling check that never clips.
ClipToCeiling_Unclipped(v, recorded, ceiling) == v

\* A ceiling check that clips to the headroom without the max(0, ...).
ClipToCeiling_NoFloor(v, recorded, ceiling) ==
    IF v + SumSeq(recorded) > ceiling
    THEN ceiling - SumSeq(recorded)
    ELSE v

\* The ceiling enforcement of trigger_PID: v is the rounded PID output (or 0),
\* recorded the outputs so far.
ClipToCeiling(v, recorded, ceiling) ==
    IF v + SumSeq(recorded) > ceiling
    THEN Max(0, ceiling - SumSeq(recorded))
    ELSE v

\* A guard with <= for <, once the feed has recorded something.
HasNewMeasurement_OrEqual == pred_num_event > 0 /\ num_event <= pred_num_event

\* A guard that only asks whether the feed has recorded anything.
HasNewMeasurement_FeedStarted == pred_num_event > 0

\* The guard of trigger_PID: the prediction handler has a newer event.
HasNewMeasurement == num_event < pred_num_event

\* PIDHandler.get_values()[0] when num_event is count: the feed's dates, cut
\* to the controller's counter.
PIDGetDates(count) == SubSeq(PredGetValues[1], 1, Min(count, Len(PredGetValues[1])))

\* A record written before the output is stored: the cumulative field misses
\* the output of this tick.
LogRecord_BeforeStore(input_val, output_val, outputs, count) ==
    [date |-> PIDGetDates(count)[Len(PIDGetDates(count))],
     elapsed |-> "NaN",
     status |-> GetStatus(pid, pred_labels, track_idx, max_vol),
     input |-> input_val,
     output |-> output_val,
     cumulative |-> SumSeq(outputs) - output_val]

\* PIDHandler.write_to_log(input_val, output_val), called after the output
\* was recorded: outputs and count are the handler's vol[:num_event] and
\* num_event at that time.  The plotter's start_time is never marked here, so
\* the elapsed time is NaN.
LogRecord(input_val, output_val, outputs, count) ==
    [date |-> PIDGetDates(count)[Len(PIDGetDates(count))],
     elapsed |-> "NaN",
     status |-> GetStatus(pid, pred_labels, track_idx, max_vol),
     input |-> input_val,
     output |-> output_val,
     cumulative |-> SumSeq(outputs)]

\* A tick that invokes the PID whatever the mode.
PIDInvoked_Always(p) == TRUE

\* The first branch of trigger_PID's body: the PID is invoked only in auto
\* mode, otherwise the output is 0.
PIDInvoked(p) == p.auto_mode

RawOutputs(p) == IF PIDInvoked(p) THEN PIDOutputs(p) ELSE {0}

\* An output stored over the last one recorded: the index is not advanced.
StoreOutput_OverLast(outputs, v) ==
    IF outputs = <<>> THEN <<v>> ELSE [outputs EXCEPT ![Len(outputs)] = v]

\* self.vol[self.num_event] = vol, vol[:num_event] being the outputs so far.
StoreOutput(outputs, v) == Append(outputs, v)

\* PIDHandler.trigger_PID(): one tick.  plotter.animate() holds no await of
\* its own, so the whole tick is one step of the event loop.
TriggerPID ==
    /\ last_tick' = IF HasNewMeasurement THEN "recorded" ELSE "noop"
    /\ last_feed' = "none"
    /\ IF HasNewMeasurement
       THEN \E raw \in RawOutputs(pid) :
              LET value == Average(PredGetValues[2], track_idx)
                  v == ClipToCeiling(raw, vol, max_vol)
              IN  /\ pid_calls' = IF PIDInvoked(pid) THEN pid_calls + 1 ELSE pid_calls
                  /\ last_raw' = <<raw>>
                  /\ vol' = StoreOutput(vol, v)
                  /\ num_event' = num_event + 1
                  /\ log' = Append(log, LogRecord(value, v, StoreOutput(vol, v),
                                                  num_event + 1))
                  /\ animated' = animated + 1
       ELSE UNCHANGED <<vol, num_event, pid_calls, log, animated, last_raw>>
    /\ UNCHANGED <<pred_num_event, pred_labels, pred_dates, pred_values,
                   max_vol, track_idx, pid>>
    /\ UNCHANGED pumpVars

\* PIDTab.enable_pid -> pid.set_auto_mode(True)
EnablePID ==
    /\ pid' = [pid EXCEPT !.auto_mode = TRUE]
    /\ UNCHANGED <<pred_num_event, pred_labels, pred_dates, pred_values, vol,
                   num_event, max_vol, track_idx, pid_calls, log, animated, last_tick,
                   last_raw, last_feed>>
    /\ UNCHANGED pumpVars

\* PIDTab.disable_pid -> pid.set_auto_mode(False)
DisablePID ==
    /\ pid' = [pid EXCEPT !.auto_mode = FALSE]
    /\ UNCHANGED <<pred_num_event, pred_labels, pred_dates, pred_values, vol,
                   num_event, max_vol, track_idx, pid_calls, log, animated, last_tick,
                   last_raw, last_feed>>
    /\ UNCHANGED pumpVars

\* The parameter sets the operator submits through PIDTab.update_pid: one
\* that changes every parameter and allows negative outputs, one that restores
\* the defaults and lowers the ceiling, one that tracks by index (accepted
\* only while the labels are unknown) and whose limits simple_pid rejects
\* (lower > upper), one that names a label with those rejected limits, one
\* that keeps the ceiling of construction and allows negative outputs.
Updates ==
    {[track |-> "Xylose", setpoint |-> 50, coeffs |-> <<2, 50, 1>>,
      limits |-> <<-500, 900>>, max_vol |-> 1400],
     [track |-> "Glucose", setpoint |-> 40, coeffs |-> <<1, 100, 0>>,
      limits |-> <<0, 2000>>, max_vol |-> 500],
     [track |-> "1", setpoint |-> 50, coeffs |-> <<2, 50, 1>>,
      limits |-> <<900, 0>>, max_vol |-> 1400],
     [track |-> "Xylose", setpoint |-> 50, coeffs |-> <<2, 50, 1>>,
      limits |-> <<900, 0>>, max_vol |-> 1400],
     [track |-> "Glucose", setpoint |-> 40, coeffs |-> <<1, 100, 0>>,
      limits |-> <<-500, 900>>, max_vol |-> 1000]}

\* The first statement of update_all: the index of the label when the labels
\* are known, int(track) when they are not; NoInt when that raises ValueError.
ResolveTrack(labels, track) ==
    IF labels = NoList THEN ParseInt(track) ELSE IndexOf(labels, track)

\* simple_pid's output_limits setter raises ValueError for lower > upper.
LimitsAccepted(limits) == limits[1] <= limits[2]

\* PIDHandler.update_all(track, setpoint, coeffs, limits, max_vol), statement
\* by statement: a ValueError leaves the statements after it unexecuted.
UpdateAll ==
    \E u \in Updates :
      LET idx == ResolveTrack(PredGetLabels, u.track)
      IN  /\ IF idx = NoInt
             THEN UNCHANGED <<track_idx, pid, max_vol>>
             ELSE /\ track_idx' = idx
                  /\ IF LimitsAccepted(u.limits)
                     THEN /\ pid' = [pid EXCEPT !.setpoint = u.setpoint,
                                                !.tunings = u.coeffs,
                                                !.output_limits = u.limits]
                          /\ max_vol' = u.max_vol
                     ELSE /\ pid' = [pid EXCEPT !.setpoint = u.setpoint,
                                                !.tunings = u.coeffs]
                          /\ UNCHANGED max_vol
          /\ UNCHANGED <<pred_num_event, pred_labels, pred_dates, pred_values,
                         vol, num_event, pid_calls, log, animated, last_tick,
                         last_raw, last_feed>>
          /\ UNCHANGED pumpVars

\* PIDHandler.__init__ and PredictionHandler.__init__
InitController ==
    /\ pred_num_event = 0
    /\ pred_labels = NoList
    /\ pred_dates = <<>>
    /\ pred_values = <<>>
    /\ vol = <<>>
    /\ num_event = 0
    /\ max_vol = InitMaxVol
    /\ track_idx = 0
    /\ pid = InitPID
    /\ pid_calls = 0
    /\ log = <<>>
    /\ animated = 0
    /\ last_tick = "none"
    /\ last_raw = <<>>
    /\ last_feed = "none"

\* PumpTab.__init__: num_pumps = 0, no virtual-pump row.
NoTab == [num_pumps |-> 0, rows |-> <<>>]

\* No dispense_vol coroutine of a virtual pump is in flight or has just ended.
IdleDisp ==
    [pc |-> "idle", vpump |-> "", pump_1 |-> "", pump_2 |-> "", ratio |-> 0,
     volume |-> 0, polls |-> 0, io |-> <<>>, status |-> <<>>, err |-> ""]

\* The pump link is not part of the controller specification.
NoPumpLink ==
    /\ pump_dict = <<>>
    /\ wire = <<>>
    /\ call = [op |-> "init", pump |-> "", args |-> <<>>, err |-> "ok"]
    /\ prev_dict = <<>>
    /\ disp = IdleDisp
    /\ tab = NoTab

InitPIDSpec == InitController /\ NoPumpLink

NextPID ==
    \/ FeedUpdate
    \/ FeedMissing
    \/ TriggerPID
    \/ EnablePID
    \/ DisablePID
    \/ UpdateAll

\* The controller loop: feed events, ticks, toggles and parameter updates in
\* any order (one event loop runs each handler to completion).
SpecPID == InitPIDSpec /\ [][NextPID]_vars

\* watcher1, first statement of the loop over the changes: the prediction
\* handler is given the event.
WatchFeed ==
    /\ last_feed = "none"
    /\ (FeedUpdate \/ FeedMissing)

\* watcher1, second statement: the controller is ticked.
WatchTick ==
    /\ last_feed # "none"
    /\ TriggerPID

NextWatcher ==
    \/ WatchFeed
    \/ WatchTick
    \/ EnablePID
    \/ DisablePID
    \/ UpdateAll

\* The controller driven by the watcher task, every file event followed by a
\* tick, with the operator's callbacks at any time.
SpecWatcher == InitPIDSpec /\ [][NextWatcher]_vars

(***************************************************************************)
(* pump.Pump / pump.VPump / pump.Pump_Serial                               *)
(*                                                                         *)
(* Registry keys are the strings "1", "2", ... for the pumps discovery     *)
(* registered and "VPk" for virtual pumps.  A function of Pump_Serial is   *)
(* an operator from the registry (and its arguments, and what the device   *)
(* answers) to a result [dict, io, err]: the registry when the function    *)
(* returns or raises, the serial reads and writes it performed in order,   *)
(* and "ok" or the name of the exception it raised.                        *)
(***************************************************************************)
\* Pumps discovery found on the chain.
NumPumps == 2

\* Bound on Pump.total_rev (thousandths of a revolution).
MaxTotalRev == 1000

\* Pump.__init__(ID)
NewPump(id) ==
    [kind |-> "Pump", ID |-> id, total_rev |-> 0, rpm |-> 0, vol_per_rev |-> NoInt,
     direction |-> None]

\* VPump.__init__(pump_1, pump_2, ratio); the constituents are named by their
\* registry keys, the ratio is in percent.
NewVPump(p1, p2, ratio) ==
    [kind |-> "VPump", pump_1 |-> p1, pump_2 |-> p2, ratio |-> ratio]

\* serial_dev.write(b'\x02' + 'P<pump><cmd><arg>' + b'\x0D') and serial_dev.read(n)
Write(cmd, pump, arg) == [io |-> "write", cmd |-> cmd, pump |-> pump, arg |-> arg]

Read == [io |-> "read", cmd |-> "", pump |-> "", arg |-> 0]

Result(d, io, err) == [dict |-> d, io |-> io, err |-> err]

\* Runs g on the registry f left, if f returned normally, and joins their I/O.
Then(f, g(_)) ==
    IF f.err = "ok"
    THEN LET r == g(f.dict) IN Result(r.dict, f.io \o r.io, r.err)
    ELSE f

\* A rational number n / d (d > 0): a volume or a revolution count before it
\* is rounded.
Rat(n, d) == [n |-> n, d |-> d]

\* round(rev, 2) of a count in thousandths of a revolution: the nearest
\* multiple of 10 (no input of the model lies exactly between two).
Round2(rev) == 10 * ((2 * rev.n + 10 * rev.d) \div (20 * rev.d))

\* round(rpm, 1) of a speed in hundredths of an rpm.
Round1(rpm) == 10 * ((rpm + 5) \div 10)

\* str.lower() on the directions the model submits.
Lower(direction) ==
    CASE direction = "CW"  -> "cw"
      [] direction = "CCW" -> "ccw"
      [] OTHER             -> direction

\* Variant: valid_pump without its test for a virtual pump.
ValidPump_MissingOnly(d, pump_num) ==
    IF pump_num \notin DOMAIN d THEN "ValueError" ELSE "ok"

\* Pump_Serial.valid_pump(pump_num): "ok" or the ValueError it raises.
ValidPump(d, pump_num) ==
    IF pump_num \notin DOMAIN d THEN "ValueError"
    ELSE IF d[pump_num].kind = "VPump" THEN "ValueError"
    ELSE "ok"

\* Variant: halt_pump without its call of valid_pump.
HaltPump_Unvalidated(d, pump_num) == Result(d, <<Write("H", pump_num, 0)>>, "ok")

\* Pump_Serial.halt_pump(pump_num)
HaltPump(d, pump_num) ==
    IF ValidPump(d, pump_num) # "ok" THEN Result(d, <<>>, "ValueError")
    ELSE Result(d, <<Write("H", pump_num, 0)>>, "ok")

\* Pump_Serial.run_pump(pump_num)
RunPump(d, pump_num) ==
    IF ValidPump(d, pump_num) # "ok" THEN Result(d, <<>>, "ValueError")
    ELSE IF d[pump_num].rpm = 0 THEN Result(d, <<>>, "ValueError")
    ELSE Result(d, <<Write("G", pump_num, 0)>>, "ok")

\* Variant: the range check without its upper limit.
RpmRejected_NoUpperLimit(rpm) == rpm < 1000

\* The range check of assign_speed, on a speed in hundredths of an rpm.
RpmRejected(rpm) == rpm > 60000 \/ rpm < 1000

\* The direction check of assign_speed, after lower().
DirectionRejected(direction) == direction \notin {"cw", "ccw"}

\* The replies of the device to a speed command: ACK, the NAK byte b'\x15', the
\* four ASCII characters "0x15", nothing (timeout).
SpeedReplies == {"\\x06", "\\x15", "0x15", ""}

\* b'0x15' in reply
AsksForHalt(reply) == reply = "0x15"

\* Pump.set_speed(direction, rpm)
SetSpeed(d, pump_num, direction, rpm) ==
    [d EXCEPT ![pump_num].direction = direction, ![pump_num].rpm = rpm]

RECURSIVE AssignSpeed(_, _, _, _, _)
\* Pump_Serial.assign_speed(pump_num, direction, rpm); replies are the
\* device's answers to the successive speed commands (nothing once they are
\* used up).
AssignSpeed(d, pump_num, direction, rpm, replies) ==
    IF ValidPump(d, pump_num) # "ok" THEN Result(d, <<>>, "ValueError")
    ELSE IF RpmRejected(rpm) THEN Result(d, <<>>, "ValueError")
    ELSE IF DirectionRejected(Lower(direction)) THEN Result(d, <<>>, "ValueError")
    ELSE LET dir == Lower(direction)
             r == Round1(rpm)
             reply == IF replies = <<>> THEN "" ELSE Head(replies)
             rest == IF replies = <<>> THEN <<>> ELSE Tail(replies)
             sent == Result(d, <<Write("S", pump_num, <<dir, r>>), Read>>, "ok")
             setSpeed(dd) == Result(SetSpeed(dd, pump_num, dir, r), <<>>, "ok")
             halt(dd) == HaltPump(dd, pump_num)
             again(dd) == AssignSpeed(dd, pump_num, dir, r, rest)
         IN  IF AsksForHalt(reply)
             THEN Then(Then(Then(sent, halt), again), setSpeed)
             ELSE Then(sent, setSpeed)

\* Variant: assign_rev without its sign check.
RevRejected_Never(rev) == FALSE

\* The sign check of assign_rev.
RevRejected(rev) == rev.n < 0

\* Variant: the revolutions command is written whatever the count.
RevIsSent_Always(rounded) == TRUE

\* Variant: the test `rev != 0` applied the wrong way round.
RevIsSent_OnlyZero(rounded) == rounded = 0

\* The test `rev != 0` of assign_rev, on the rounded count.
RevIsSent(rounded) == rounded # 0

\* Pump_Serial.assign_rev(pump_num, rev, run)
AssignRev(d, pump_num, rev, run) ==
    IF ValidPump(d, pump_num) # "ok" THEN Result(d, <<>>, "ValueError")
    ELSE IF RevRejected(rev) THEN Result(d, <<>>, "ValueError")
    ELSE LET rounded == Round2(rev)
             sent == Result([d EXCEPT ![pump_num].total_rev = @ + rounded],
                            <<Write("V", pump_num, rounded)>>, "ok")
             runIt(dd) == RunPump(dd, pump_num)
         IN  IF RevIsSent(rounded)
             THEN (IF run THEN Then(sent, runIt) ELSE sent)
             ELSE Result(d, <<>>, "ok")

\* Variant: vol_to_rev looks at the calibration before the sign of the volume.
VolToRev_CalibrationFirst(pump, volume) ==
    IF pump.vol_per_rev = NoInt THEN [err |-> "AttributeError", rev |-> Rat(0, 1)]
    ELSE IF volume.n < 0 THEN [err |-> "ValueError", rev |-> Rat(0, 1)]
    ELSE [err |-> "ok", rev |-> Rat(10 * volume.n, volume.d * pump.vol_per_rev)]

\* Pump.vol_to_rev(vol): [err, rev]; the volume is a rational number of
\* hundredths of a mL, vol_per_rev is in mL per revolution, rev in thousandths
\* of a revolution.
VolToRev(pump, volume) ==
    IF volume.n < 0 THEN [err |-> "ValueError", rev |-> Rat(0, 1)]
    ELSE IF pump.vol_per_rev = NoInt THEN [err |-> "AttributeError", rev |-> Rat(0, 1)]
    ELSE [err |-> "ok", rev |-> Rat(10 * volume.n, volume.d * pump.vol_per_rev)]

\* Pump.set_vol_per_rev(vol_per_rev) through Pump_Serial.set_vol_per_rev
SetVolPerRev(d, pump_num, vol_per_rev) ==
    IF pump_num \notin DOMAIN d THEN Result(d, <<>>, "KeyError")
    ELSE IF d[pump_num].kind = "VPump" THEN Result(d, <<>>, "AttributeError")
    ELSE IF vol_per_rev <= 0 THEN Result(d, <<>>, "ValueError")
    ELSE Result([d EXCEPT ![pump_num].vol_per_rev = vol_per_rev], <<>>, "ok")


\* Pump_Serial.status_dict: the decode tables of the status characters at
\* positions 0, 3 and 4 ("" stands for a KeyError).
StatusDict(i, ch) ==
    CASE i = 0 /\ ch = "0" -> "Local"
      [] i = 0 /\ ch = "1" -> "Remote"
      [] i = 3 /\ ch = "1" -> "Idle"
      [] i = 3 /\ ch = "2" -> "Waiting Go"
      [] i = 3 /\ ch = "3" -> "Running"
      [] i = 3 /\ ch = "4" -> "Stopped Locally"
      [] i = 3 /\ ch = "5" -> "No Motor Feedback"
      [] i = 3 /\ ch = "6" -> "Overload"
      [] i = 3 /\ ch = "7" -> "Excessive Motor Feedback"
      [] i = 4 /\ ch = "0" -> "None"
      [] i = 4 /\ ch = "1" -> "Parity"
      [] i = 4 /\ ch = "2" -> "Framing"
      [] i = 4 /\ ch = "3" -> "Overun"
      [] i = 4 /\ ch = "4" -> "Invalid Command"
      [] i = 4 /\ ch = "5" -> "Invalid Data"
      [] OTHER -> ""

Digits == {"0", "1", "2", "3", "4", "5", "6", "7", "8", "9"}

\* re.search(r"\d{5}", reply): the first five consecutive digits of the reply
\* (a sequence of characters), or <<>> when there are none (search returns
\* None).
SearchResponse(reply) ==
    LET starts == {i \in 1..(Len(reply) - 4) : \A j \in i..(i + 4) : reply[j] \in Digits}
    IN  IF starts = {} THEN <<>>
        ELSE LET first == CHOOSE i \in starts : \A k \in starts : i <= k
             IN  SubSeq(reply, first, first + 4)

\* What the device does with an info request: fail names the serial operation
\* of check_status (1: the buffer-clearing read, 2: the write, 3: the read of
\* the reply) that raises serial.SerialException, 0 when none does.
Answer(fail, reply) == [fail |-> fail, reply |-> reply]

\* Variant: only a failure of the read of the reply is caught.
SerialFailureCaught_ReplyOnly(fail) == fail = 3

\* The try block of check_status holds all three serial operations: a
\* serial.SerialException of any of them reaches its except clause.
SerialFailureCaught(fail) == fail \in {1, 2, 3}

\* Pump_Serial.check_status(pump_num): a result with the tuple returned in ret.
CheckStatus(d, pump_num, answer) ==
    LET ops == <<Read, Write("I", pump_num, 0), Read>>
        status == SearchResponse(answer.reply)
        decoded == [k \in 1..3 |-> StatusDict(<<0, 3, 4>>[k], status[<<0, 3, 4>>[k] + 1])]
    IN  IF ValidPump(d, pump_num) # "ok"
        THEN [dict |-> d, io |-> <<>>, err |-> "ValueError", ret |-> <<>>]
        ELSE IF answer.fail # 0
        THEN (IF SerialFailureCaught(answer.fail)
              THEN [dict |-> d, io |-> SubSeq(ops, 1, answer.fail - 1), err |-> "ok",
                    ret |-> <<"Disconnected", "Disconnected", "Disconnected">>]
              ELSE [dict |-> d, io |-> SubSeq(ops, 1, answer.fail - 1),
                    err |-> "SerialException", ret |-> <<>>])
        ELSE IF status = <<>>
        THEN [dict |-> d, io |-> ops, err |-> "AttributeError", ret |-> <<>>]
        ELSE IF \E k \in 1..3 : decoded[k] = ""
        THEN [dict |-> d, io |-> ops, err |-> "ok", ret |-> <<"", "", "">>]
        ELSE [dict |-> d, io |-> ops, err |-> "ok", ret |-> decoded]

\* Variant: the key counts the physical pumps only.
VPumpKey_CountsPhysical(d) ==
    "VP" \o ToString(Cardinality({k \in DOMAIN d : d[k].kind = "Pump"}) + 1)

\* key = f"VP{num_pumps + 1}" with num_pumps = len(self.pump_dict)
VPumpKey(d) == "VP" \o ToString(Cardinality(DOMAIN d) + 1)

\* Pump_Serial.add_vpump(pump_num_1, pump_num_2, ratio)
AddVPump(d, pump_num_1, pump_num_2, ratio) ==
    IF ValidPump(d, pump_num_1) # "ok" THEN Result(d, <<>>, "ValueError")
    ELSE IF ValidPump(d, pump_num_2) # "ok" THEN Result(d, <<>>, "ValueError")
    ELSE LET key == VPumpKey(d)
         IN  Result([k \in DOMAIN d \cup {key} |->
                        IF k = key THEN NewVPump(pump_num_1, pump_num_2, ratio) ELSE d[k]],
                    <<>>, "ok")

\* The else branch of dispense_vol: a physical pump.
DispensePhysical(d, pump_num, volume) ==
    LET revs == VolToRev(d[pump_num], Rat(volume, 1))
    IN  IF revs.err # "ok" THEN Result(d, <<>>, revs.err)
        ELSE AssignRev(d, pump_num, revs.rev, TRUE)

\* The virtual-pump branch of dispense_vol up to its wait loop: both counts
\* are computed, pump 1 is assigned and run, pump 2 is assigned only.
\* A constituent that is itself a VPump has no vol_to_rev (AttributeError).
DispenseArm(d, pump_1, pump_2, ratio, volume) ==
    LET rev_1 == VolToRev(d[pump_1], Rat(volume * ratio, 100))
        rev_2 == VolToRev(d[pump_2], Rat(volume * (100 - ratio), 100))
        second(dd) == AssignRev(dd, pump_2, rev_2.rev, FALSE)
    IN  IF d[pump_1].kind = "VPump" THEN Result(d, <<>>, "AttributeError")
        ELSE IF rev_1.err # "ok" THEN Result(d, <<>>, rev_1.err)
        ELSE IF d[pump_2].kind = "VPump" THEN Result(d, <<>>, "AttributeError")
        ELSE IF rev_2.err # "ok" THEN Result(d, <<>>, rev_2.err)
        ELSE Then(AssignRev(d, pump_1, rev_1.rev, TRUE), second)

\* A step of the dispense coroutine: a result and what its polls of pump 1
\* returned (a run status, or the name of the exception check_status raised).
Polled(res, status) ==
    [dict |-> res.dict, io |-> res.io, err |-> res.err, status |-> status]

\* Variant: pump 2 is run at once, without waiting for pump 1.
DispensePoll_NoWait(d, pump_1, pump_2, answer) == Polled(RunPump(d, pump_2), <<>>)

\* One pass of the wait loop of dispense_vol and what follows it: pump 1 is
\* polled; while it is 'Running' the coroutine sleeps (err "waiting"),
\* otherwise pump 2 is run.
DispensePoll(d, pump_1, pump_2, answer) ==
    LET polled == CheckStatus(d, pump_1, answer)
        runSecond(dd) == RunPump(dd, pump_2)
    IN  IF polled.err # "ok"
        THEN Polled(Result(d, polled.io, polled.err), <<polled.err>>)
        ELSE IF polled.ret[2] = "Running"
        THEN Polled(Result(d, polled.io, "waiting"), <<polled.ret[2]>>)
        ELSE Polled(Then(Result(d, polled.io, "ok"), runSecond), <<polled.ret[2]>>)

\* Pump_Serial.set_vpump(vpump_id, pump_num_1, pump_num_2, ratio): the
\* constituents are looked up and stored one after the other, unvalidated.
SetVPump(d, vpump_id, pump_num_1, pump_num_2, ratio) ==
    IF vpump_id \notin DOMAIN d THEN Result(d, <<>>, "KeyError")
    ELSE IF d[vpump_id].kind # "VPump" THEN Result(d, <<>>, "ValueError")
    ELSE IF pump_num_1 \notin DOMAIN d THEN Result(d, <<>>, "KeyError")
    ELSE IF pump_num_2 \notin DOMAIN d
    THEN Result([d EXCEPT ![vpump_id].pump_1 = pump_num_1], <<>>, "KeyError")
    ELSE Result([d EXCEPT ![vpump_id] = NewVPump(pump_num_1, pump_num_2, ratio)],
                <<>>, "ok")

\* Variant: the resumed dispense looks the second pump up in the registry.
RunTarget_FromRegistry(co, d) == d[co.vpump].pump_2

\* The pump the resumed dispense runs: its local pump_2, bound when the call
\* started.
RunTarget(co, d) == co.pump_2

\* The pump the resumed dispense polls: its local pump_1.
PollTarget(co, d) == co.pump_1

(***************************************************************************)
(* Construction and shutdown of the link: Pump_Serial.__init__ (discovery) *)
(* and Pump_Serial.close.                                                  *)
(***************************************************************************)
\* Bound on the pumps that request an address during discovery, when the
\* chain may answer anything.
MaxDiscovered == 3

\* Bound on the pumps that request an address when every one of them behaves.
MaxChain == 26

\* serial.Serial(...) and serial_dev.close(), as entries of the I/O record.
Open == [io |-> "open", cmd |-> "", pump |-> "", arg |-> 0]

Close == [io |-> "close", cmd |-> "", pump |-> "", arg |-> 0]

\* The replies to the enquire byte the model lets the chain give: a pump
\* requesting to send ('?'), the same inside a longer message, a byte that is
\* no request, silence.
EnquireReplies == {"?", "\\x02P?\\r", "\\x06", ""}

\* Variant: any reply at all is taken as a request.
HasRTS_AnyReply(reply) == reply # ""

\* '?' in self.rts_status()
HasRTS(reply) == reply \in {"?", "\\x02P?\\r"}

\* The replies to the assign command: ACK, two ACK bytes, NAK, silence.
AckReplies == {"\\x06", "\\x06\\x06", "\\x15", ""}

\* Variant: any reply that contains the ACK byte is taken as acknowledgement.
Acknowledged_Contains(reply) == reply \in {"\\x06", "\\x06\\x06"}

\* reply == b'\x06'
Acknowledged(reply) == reply = "\\x06"

\* Variant: addresses are counted from the size of the registry.
NextAddress_FromZero(d) == Cardinality(DOMAIN d)

\* pump_num = len(self.pump_dict) + 1
NextAddress(d) == Cardinality(DOMAIN d) + 1

\* The keys of the registry in insertion order: the discovered pumps, then the
\* virtual pumps, each created under "VP<size of the registry + 1>".
Keys(d) ==
    [i \in 1..Cardinality(DOMAIN d) |->
        IF ToString(i) \in DOMAIN d THEN ToString(i) ELSE "VP" \o ToString(i)]

\* What valid_pump returns when it does not raise: it has no return statement.
ValidPumpValue == None

\* The truth value Python gives to v.
Truthy(v) == v \notin {None, NoInt}

RECURSIVE CloseFrom(_, _, _)
\* The loop of close over the keys still to visit, io being what was written
\* so far.
CloseFrom(d, keys, io) ==
    IF keys = <<>> THEN Result(d, Append(io, Close), "ok")
    ELSE IF ValidPump(d, Head(keys)) # "ok" THEN Result(d, io, "ValueError")
    ELSE IF Truthy(ValidPumpValue)
    THEN CloseFrom(d, Tail(keys), Append(io, Write("L", Head(keys), 0)))
    ELSE CloseFrom(d, Tail(keys), io)

\* Pump_Serial.close()
CloseLink(d) == CloseFrom(d, Keys(d), <<>>)

\* What the chain does during one construction: whether the port can be
\* opened, its replies to the successive enquiries and to the successive
\* assign commands (silence once they are used up).
Scripts ==
    [open : BOOLEAN,
     enq : UNION {[1..n -> EnquireReplies] : n \in 0..MaxDiscovered},
     ack : UNION {[1..n -> AckReplies] : n \in 0..MaxDiscovered}]
        \cup {[open |-> TRUE, enq |-> [k \in 1..n |-> "?"], ack |-> [k \in 1..n |-> "\\x06"]] :
                 n \in (MaxDiscovered + 1)..MaxChain}

\* The outcome of discovery, with the replies it received.
Discovered(res, enq, ack) ==
    [dict |-> res.dict, io |-> res.io, err |-> res.err, enq |-> enq, ack |-> ack]

RECURSIVE Probe(_, _, _, _, _, _)
\* The while loop of __init__ and what follows it: d and io are the registry
\* and the I/O so far, enq and ack the replies still to come, heardEnq and
\* heardAck the replies received.
Probe(d, io, enq, ack, heardEnq, heardAck) ==
    LET reply == IF enq = <<>> THEN "" ELSE Head(enq)
        asked == io \o <<Write("ENQ", "", 0), Read>>
        heard == Append(heardEnq, reply)
    IN  IF HasRTS(reply)
        THEN LET key == ToString(NextAddress(d))
                 answer == IF ack = <<>> THEN "" ELSE Head(ack)
                 assigned == asked \o <<Write("P", key, 0), Read>>
                 answers == Append(heardAck, answer)
             IN  IF Acknowledged(answer)
                 THEN Probe([k \in DOMAIN d \cup {key} |->
                                IF k = key THEN NewPump(key) ELSE d[k]],
                            assigned, Tail(enq),
                            IF ack = <<>> THEN <<>> ELSE Tail(ack), heard, answers)
                 ELSE Discovered(Result(d, assigned, "RuntimeError: not acknowledged"),
                                 heard, answers)
        ELSE IF DOMAIN d = {}
        THEN LET closed == CloseLink(d)
             IN  Discovered(Result(d, asked \o closed.io,
                                   IF closed.err = "ok"
                                   THEN "RuntimeError: no pumps" ELSE closed.err),
                            heard, heardAck)
        ELSE Discovered(Result(d, asked, "ok"), heard, heardAck)

\* Pump_Serial.__init__(serialID)
Discover(script) ==
    IF script.open
    THEN Probe(<<>>, <<Open>>, script.enq, script.ack, <<>>, <<>>)
    ELSE Discovered(Result(<<>>, <<>>, "PermissionError"), <<>>, <<>>)

\* The link can be called: it was constructed and its port was not closed.
LinkUsable ==
    /\ call.op # "none"
    /\ call.op = "init" => call.err = "ok"
    /\ \A i \in 1..Len(wire) : wire[i] # Close

(***************************************************************************)
(* The operations of the pump link as steps of the event loop.  Every      *)
(* function of Pump_Serial but dispense_vol runs to completion in one      *)
(* step; dispense_vol on a virtual pump is suspended in its wait loop      *)
(* (await asyncio.sleep(1)) and other callbacks run meanwhile.             *)
(***************************************************************************)
\* Bound on the virtual pumps the operator creates.
MaxVPumps == 1

\* Bound on the speed commands the device answers in one assign_speed call.
MaxSpeedReplies == 2

\* Bound on the polls of one dispense the device answers with 'Running'.
MaxPolls == 1

\* The addresses the model calls the link with: the two pumps and the key
\* of the first virtual pump, which is no address of the registry until
\* add_vpump has created it.
PumpArgs == {"1", "2", "VP3"}

DirectionInputs == {"CW", "up"}

\* 9.96, 10.04 and 600.04 rpm.
RpmInputs == {996, 1004, 60004}

\* -0.004, 0, 0.004 and 1.004 revolutions.
RevInputs == {-4, 0, 4, 1004}

\* -1, 0 and 3.01 mL.
VolInputs == {-100, 0, 301}

\* 0 and 3 mL per revolution.
VolPerRevInputs == {0, 3}

\* 0 %, 50 % and 150 %.
RatioInputs == {0, 50, 150}

\* What the device answers to the successive speed commands of one call.
ReplySeqs ==
    {r \in [1..MaxSpeedReplies -> SpeedReplies] :
        \/ r[1] = "0x15"
        \/ r[1] # "0x15" /\ r[2] = ""}

Answers ==
    {Answer(0, <<"1", "0", "0", "3", "0">>),
     Answer(0, <<"I", "1", "0", "0", "1", "0">>),
     Answer(0, <<"1", "0", "0", "9", "0">>),
     Answer(0, <<>>),
     Answer(1, <<>>),
     Answer(3, <<>>)}

\* The replies an assign_speed call consumed: one per read it performed.
Consumed(replies, io) ==
    SubSeq(replies, 1, Min(Len(replies), Len(SelectSeq(io, LAMBDA e : e.io = "read"))))

WithinBounds(d) ==
    \A k \in DOMAIN d : d[k].kind = "Pump" => d[k].total_rev <= MaxTotalRev

\* A call that ran to completion: the registry it leaves, its I/O, its outcome.
Completes(opname, pump_num, args, res) ==
    /\ LinkUsable
    /\ WithinBounds(res.dict)
    /\ pump_dict' = res.dict
    /\ wire' = res.io
    /\ call' = [op |-> opname, pump |-> pump_num, args |-> args, err |-> res.err]
    /\ prev_dict' = pump_dict
    /\ disp' = IF disp.pc = "wait" THEN disp ELSE IdleDisp
    /\ UNCHANGED tab
    /\ UNCHANGED pidVars

\* The device answers only the calls that reach it.
RepliesTo(pump_num, direction, rpm) ==
    IF AssignSpeed(pump_dict, pump_num, direction, rpm, <<>>).io = <<>>
    THEN {<<>>}
    ELSE ReplySeqs

DoAssignSpeed ==
    \E pump_num \in PumpArgs, direction \in DirectionInputs, rpm \in RpmInputs :
        \E replies \in RepliesTo(pump_num, direction, rpm) :
            LET res == AssignSpeed(pump_dict, pump_num, direction, rpm, replies)
            IN  Completes("assign_speed", pump_num,
                          <<direction, rpm, Consumed(replies, res.io)>>, res)

DoAssignRev ==
    \E pump_num \in PumpArgs, rev \in RevInputs, run \in BOOLEAN :
        Completes("assign_rev", pump_num, <<rev, run>>,
                  AssignRev(pump_dict, pump_num, Rat(rev, 1), run))

DoRunPump ==
    \E pump_num \in PumpArgs :
        Completes("run_pump", pump_num, <<>>, RunPump(pump_dict, pump_num))

DoHaltPump ==
    \E pump_num \in PumpArgs :
        Completes("halt_pump", pump_num, <<>>, HaltPump(pump_dict, pump_num))

DoCheckStatus ==
    \E pump_num \in PumpArgs, answer \in Answers :
        LET res == CheckStatus(pump_dict, pump_num, answer)
        IN  Completes("check_status", pump_num,
                      <<IF res.err = "ValueError" THEN Answer(0, <<>>) ELSE answer, res.ret>>,
                      res)

DoSetVolPerRev ==
    \E pump_num \in PumpArgs, vol_per_rev \in VolPerRevInputs :
        Completes("set_vol_per_rev", pump_num, <<vol_per_rev>>,
                  SetVolPerRev(pump_dict, pump_num, vol_per_rev))

\* The virtual pumps the operator asks for: pumps 1 and 2 at each ratio, and
\* two requests naming an address that is no pump of the registry.
AddVPumpInputs ==
    {<<"1", "2", ratio>> : ratio \in RatioInputs}
        \cup {<<"3", "2", 50>>, <<"1", "VP3", 50>>}

\* add_vpump as long as the registry holds fewer than limit virtual pumps.
AddVPumpUpTo(limit) ==
    \E i \in AddVPumpInputs :
        /\ Cardinality({k \in DOMAIN pump_dict : pump_dict[k].kind = "VPump"}) < limit
        /\ Completes("add_vpump", i[1], <<i[2], i[3]>>,
                     AddVPump(pump_dict, i[1], i[2], i[3]))

DoAddVPump == AddVPumpUpTo(MaxVPumps)

\* The reassignments of a virtual pump the operator submits: the constituents
\* swapped, the ratio changed, and a target that is no virtual pump.
SetVPumpInputs ==
    {<<"VP3", "2", "1", 50>>, <<"VP3", "1", "2", 0>>, <<"1", "1", "2", 50>>}

\* set_vpump with its arguments drawn from inputs.
SetVPumpFrom(inputs) ==
    \E i \in inputs :
        Completes("set_vpump", i[1], <<i[2], i[3], i[4]>>,
                  SetVPump(pump_dict, i[1], i[2], i[3], i[4]))

DoSetVPump == SetVPumpFrom(SetVPumpInputs)

\* dispense_vol(pump_num, vol) on an address that is missing (KeyError) or a
\* physical pump.
DoDispensePhysical ==
    \E pump_num \in PumpArgs, volume \in VolInputs :
        /\ pump_num \in DOMAIN pump_dict => pump_dict[pump_num].kind = "Pump"
        /\ Completes("dispense_vol", pump_num, <<volume>>,
                     IF pump_num \in DOMAIN pump_dict
                     THEN DispensePhysical(pump_dict, pump_num, volume)
                     ELSE Result(pump_dict, <<>>, "KeyError"))

\* The answers the device may give to the next poll of a dispense that has
\* polled n times: at most MaxPolls of them say 'Running'.
PollAnswers(n) ==
    IF n < MaxPolls THEN Answers
    ELSE {a \in Answers : CheckStatus(pump_dict, "1", a).ret # <<"Remote", "Running", "None">>}

\* A step of the dispense_vol coroutine of a virtual pump that performed res
\* on behalf of the coroutine co.
Dispenses(opname, co, res) ==
    /\ LinkUsable
    /\ WithinBounds(res.dict)
    /\ pump_dict' = res.dict
    /\ wire' = res.io
    /\ call' = [op |-> opname, pump |-> co.vpump, args |-> <<co.volume>>, err |-> res.err]
    /\ prev_dict' = pump_dict
    /\ disp' = [co EXCEPT !.pc = IF res.err = "waiting" THEN "wait" ELSE "idle",
                          !.polls = IF res.err = "waiting" THEN @ + 1 ELSE @,
                          !.io = @ \o res.io,
                          !.status = @ \o res.status,
                          !.err = res.err]
    /\ UNCHANGED tab
    /\ UNCHANGED pidVars

\* dispense_vol(pump_num, vol) on a virtual pump, from the call to its first
\* suspension or its end.
DoDispenseVirtual ==
    \E pump_num \in PumpArgs, volume \in VolInputs, answer \in PollAnswers(0) :
        /\ disp.pc = "idle"
        /\ pump_num \in DOMAIN pump_dict
        /\ pump_dict[pump_num].kind = "VPump"
        /\ LET vp == pump_dict[pump_num]
               co == [IdleDisp EXCEPT !.vpump = pump_num, !.pump_1 = vp.pump_1,
                                      !.pump_2 = vp.pump_2, !.ratio = vp.ratio,
                                      !.volume = volume]
               armed == DispenseArm(pump_dict, vp.pump_1, vp.pump_2, vp.ratio, volume)
               polled == DispensePoll(armed.dict, vp.pump_1, vp.pump_2, answer)
           IN  Dispenses("dispense_vol", co,
                         IF armed.err # "ok" THEN Polled(armed, <<>>)
                         ELSE [polled EXCEPT !.io = armed.io \o @])

\* dispense_vol resumed after asyncio.sleep(1): the next pass of its wait loop.
DoDispenseResume ==
    \E answer \in PollAnswers(disp.polls) :
        /\ disp.pc = "wait"
        /\ Dispenses("dispense_vol_resumed", disp,
                     DispensePoll(pump_dict, PollTarget(disp, pump_dict),
                                  RunTarget(disp, pump_dict), answer))

\* Pump_Serial.__init__ found NumPumps pumps on the chain.
InitPumpLink ==
    /\ pump_dict = [k \in {ToString(i) : i \in 1..NumPumps} |-> NewPump(k)]
    /\ wire = <<>>
    /\ call = [op |-> "init", pump |-> "", args |-> <<>>, err |-> "ok"]
    /\ prev_dict = pump_dict
    /\ disp = IdleDisp
    /\ tab = NoTab

InitPumpSpec == InitController /\ InitPumpLink

NextPump ==
    \/ DoAssignSpeed
    \/ DoAssignRev
    \/ DoRunPump
    \/ DoHaltPump
    \/ DoCheckStatus
    \/ DoSetVolPerRev
    \/ DoAddVPump
    \/ DoSetVPump
    \/ DoDispensePhysical
    \/ DoDispenseVirtual
    \/ DoDispenseResume

\* The pump link after discovery: the operator's and the controller's calls
\* in any order, each run to completion but for the virtual-pump dispense.
SpecPump == InitPumpSpec /\ [][NextPump]_vars

NextDispense ==
    \/ DoSetVolPerRev
    \/ DoAssignSpeed
    \/ DoAddVPump
    \/ DoHaltPump
    \/ DoDispenseVirtual
    \/ DoDispenseResume

\* The virtual-pump dispense and the calls that prepare it or run beside it.
\* asyncio.sleep(1) returns after a second and the event loop then resumes
\* the coroutine: a suspended dispense is not left waiting for ever.
SpecDispense ==
    InitPumpSpec /\ [][NextDispense]_vars /\ WF_vars(DoDispenseResume)


\* Pump_Serial(serialID): the constructor, from opening the port to the end
\* of discovery.
Construct ==
    \E script \in Scripts :
        LET res == Discover(script)
        IN  /\ call.op = "none"
            /\ pump_dict' = res.dict
            /\ wire' = res.io
            /\ call' = [op |-> "init", pump |-> "", args |-> <<res.enq, res.ack>>,
                        err |-> res.err]
            /\ prev_dict' = pump_dict
            /\ disp' = IdleDisp
            /\ UNCHANGED tab
            /\ UNCHANGED pidVars

DoClose == Completes("close", "", <<>>, CloseLink(pump_dict))

\* Before Pump_Serial is constructed.
NoLinkYet ==
    /\ pump_dict = <<>>
    /\ wire = <<>>
    /\ call = [op |-> "none", pump |-> "", args |-> <<>>, err |-> "ok"]
    /\ prev_dict = <<>>
    /\ disp = IdleDisp
    /\ tab = NoTab

InitLinkSpec == InitController /\ NoLinkYet

\* Bound on the virtual pumps created on a link under SpecLink.
MaxLinkVPumps == 2

DoAddVPumps == AddVPumpUpTo(MaxLinkVPumps)

\* The reassignments submitted under SpecLink: those of SetVPumpInputs, the
\* virtual pump as its own constituent, a first and a second constituent
\* that are no address of the registry.
LinkSetVPumpInputs ==
    SetVPumpInputs \cup {<<"VP3", "VP3", "2", 50>>, <<"VP3", "9", "1", 50>>,
                         <<"VP3", "2", "9", 50>>}

DoSetVPumps == SetVPumpFrom(LinkSetVPumpInputs)

NextLink ==
    \/ Construct
    \/ DoAddVPumps
    \/ DoSetVPumps
    \/ DoHaltPump
    \/ DoClose

\* The life of a link: construction with discovery, use, shutdown.
SpecLink == InitLinkSpec /\ [][NextLink]_vars

\* Bound on the virtual-pump rows the operator creates on the tab.
MaxRows == 3

\* The positions of the ratio scale the operator submits: 0 and 50.
TabRatios == {0, 50}

\* PumpTab.create_vpump(): a row labelled "VP<num_pumps + 1>" whose two menus
\* offer the keys the registry holds now; num_pumps is advanced.  The
\* registry is not called.
CreateVPump ==
    /\ LinkUsable
    /\ Len(tab.rows) < MaxRows
    /\ tab' = [num_pumps |-> tab.num_pumps + 1,
               rows |-> Append(tab.rows,
                               [id |-> "VP" \o ToString(tab.num_pumps + 1),
                                options |-> Keys(pump_dict)])]
    /\ UNCHANGED <<pump_dict, wire, call, prev_dict, disp>>
    /\ UNCHANGED pidVars

\* `if vpump_id not in self.connection.pump_dict.keys()`
RowIsNew(d, vpump_id) == vpump_id \notin DOMAIN d

\* PumpTab.set_vpump_values(row, vpump_id) with the menus at sel_1 and sel_2
\* and the scale at ratio: int() of a menu entry that is a virtual pump's key
\* raises ValueError; add_vpump when the registry has no entry under
\* vpump_id, set_vpump when it has.
SetVPumpValues(d, vpump_id, sel_1, sel_2, ratio) ==
    IF d[sel_1].kind = "VPump" \/ d[sel_2].kind = "VPump"
    THEN Result(d, <<>>, "ValueError")
    ELSE IF RowIsNew(d, vpump_id)
    THEN AddVPump(d, sel_1, sel_2, ratio)
    ELSE SetVPump(d, vpump_id, sel_1, sel_2, ratio)

\* The operator presses 'Update' on one of the rows.
UpdateRow ==
    \E r \in 1..Len(tab.rows), ratio \in TabRatios :
        LET row == tab.rows[r]
            offered == {row.options[k] : k \in 1..Len(row.options)}
        IN  \E sel_1 \in offered, sel_2 \in offered :
                Completes("set_vpump_values", row.id, <<sel_1, sel_2, ratio>>,
                          SetVPumpValues(pump_dict, row.id, sel_1, sel_2, ratio))

\* PumpTab.init_pumps connected to a chain of NumPumps pumps.
InitTab ==
    /\ pump_dict = [k \in {ToString(i) : i \in 1..NumPumps} |-> NewPump(k)]
    /\ wire = <<>>
    /\ call = [op |-> "init", pump |-> "", args |-> <<>>, err |-> "ok"]
    /\ prev_dict = pump_dict
    /\ disp = IdleDisp
    /\ tab = [num_pumps |-> Cardinality(DOMAIN pump_dict), rows |-> <<>>]

InitTabSpec == InitController /\ InitTab

NextTab ==
    \/ CreateVPump
    \/ UpdateRow

\* The operator on the pump tab: 'Create a Virtual Pump' and the rows'
\* 'Update' buttons in any order.
SpecTab == InitTabSpec /\ [][NextTab]_vars


(***************************************************************************)
(* The controller loop: claims C1 - C4, checked under SpecPID.             *)
(***************************************************************************)
\* The sum of the outputs recorded before the last one.
\* C1 (as stated): in every reachable state, after any interleaving of ticks,
\* toggles and update_all calls, the sum of all recorded outputs does not
\* exceed the current ceiling max_vol.  update_all accepts a ceiling below the
\* sum already recorded, so this fails.
C1_SumNeverExceedsCeiling == SumSeq(vol) <= max_vol

\* C1 (amended): no step raises the sum of the recorded outputs above the
\* ceiling: after every tick, toggle or update_all the sum is at most the
\* current ceiling, or it is no larger than it was before the step (the sum
\* exceeds the ceiling only because update_all lowered the ceiling below it).
C1_NoStepExceedsCeiling ==
    [][SumSeq(vol') <= Max(max_vol', SumSeq(vol))]_vars

\* C1 witness: a tick was clipped to the remaining headroom, so that the sum
\* has reached the ceiling exactly.
C1_Witness ==
    /\ Len(vol) = 2
    /\ vol[2] > 0
    /\ last_raw # <<>> /\ last_raw[1] > vol[2]
    /\ SumSeq(vol) = max_vol

\* C2: every tick that processes a new measurement records
\* max(0, ceiling - sum(prior outputs)) when rawOutput + sum(prior outputs)
\* exceeds the ceiling, which is never negative, and records rawOutput
\* unchanged otherwise.
C2_ClippedToHeadroom ==
    [][num_event' = num_event + 1 =>
         /\ last_raw' # <<>>
         /\ Len(vol') = Len(vol) + 1
         /\ SubSeq(vol', 1, Len(vol)) = vol
         /\ IF last_raw'[1] + SumSeq(vol) > max_vol
            THEN /\ vol'[Len(vol')] = Max(0, max_vol - SumSeq(vol))
                 /\ vol'[Len(vol')] >= 0
            ELSE vol'[Len(vol')] = last_raw'[1]]_vars

\* C2 witness: the scenario ceiling = 10, prior cumulative = 9, raw = 5, output
\* recorded 1, cumulative 10 (in hundredths of a mL).
C2_Witness ==
    /\ max_vol = 1000
    /\ vol = <<900, 100>>
    /\ last_raw = <<500>>
    /\ log[2].cumulative = 1000

\* C3: while the controller is Disabled, a tick that sees a new measurement
\* records exactly 0 whatever the measurement and the parameters are, does not
\* invoke the PID, and appends one log record for that tick.
C3_DisabledRecordsZero ==
    [][(~pid.auto_mode /\ num_event' = num_event + 1) =>
         /\ vol' = Append(vol, 0)
         /\ pid_calls' = pid_calls
         /\ Len(log') = Len(log) + 1
         /\ SubSeq(log', 1, Len(log)) = log
         /\ log'[Len(log')].output = 0
         /\ log'[Len(log')].status.status = "Disabled"]_vars

\* C3 witness: two Disabled ticks were logged with output 0, for different
\* measurements and with parameters changed by update_all in between.
C3_Witness ==
    /\ Len(log) = 2
    /\ log[1].status.status = "Disabled" /\ log[2].status.status = "Disabled"
    /\ log[1].output = 0 /\ log[2].output = 0
    /\ log[1].input # log[2].input
    /\ log[1].status.setpoint # log[2].status.setpoint
    /\ pid_calls = 0

\* C4: a tick invoked when the controller's event counter is not less than the
\* prediction feed's is a no-op: output history, event counter, PID, log and
\* observers are untouched, so one feed update yields at most one output.
C4_TickWithoutNewMeasurementIsNoop ==
    [][/\ num_event >= pred_num_event =>
            /\ UNCHANGED <<vol, num_event, pid_calls, log, animated, last_raw>>
            /\ (last_tick' # last_tick =>
                   /\ last_tick' = "noop"
                   /\ UNCHANGED <<pid, max_vol, track_idx>>)
       /\ num_event' <= pred_num_event']_vars

\* C4 witness: after a tick recorded the output for the only feed update, a
\* second tick was fired and did nothing.
C4_Witness ==
    /\ last_tick = "noop"
    /\ pred_num_event = 1
    /\ num_event = 1
    /\ Len(vol) = 1 /\ Len(log) = 1 /\ animated = 1

(***************************************************************************)
(* The pump link: claims C5 - C10, checked under SpecPump.  They are read  *)
(* off the last call: call (what was called, with what, how it ended),     *)
(* wire (the serial I/O it performed), prev_dict and pump_dict (the        *)
(* registry before and after it).                                          *)
(***************************************************************************)
\* The commands cmd the last call wrote for pump_num, as positions of wire.
Written(cmd, pump_num) ==
    {i \in 1..Len(wire) :
        wire[i].io = "write" /\ wire[i].cmd = cmd /\ wire[i].pump = pump_num}

\* The last call wrote nothing, read nothing and changed nothing.
Untouched == wire = <<>> /\ pump_dict = prev_dict

\* The spellings of a direction assign_speed is documented to accept.
DirectionSpellings == {"cw", "CW", "Cw", "cW", "ccw", "CCW", "Ccw", "cCw", "ccW",
                       "CCw", "cCW", "CcW"}

\* C5: assign_speed with an rpm outside [10, 600] or a direction other than
\* cw/ccw (whatever the case) fails, writes nothing on the serial channel and
\* leaves the recorded direction and speed of every pump as they were.
C5_BadSpeedRejectedBeforeIO ==
    (/\ call.op = "assign_speed"
     /\ \/ call.args[2] < 1000
        \/ call.args[2] > 60000
        \/ call.args[1] \notin DirectionSpellings)
    => /\ call.err = "ValueError"
       /\ Untouched

\* C5 witness: pump 1 runs at 10.0 rpm clockwise; assign_speed(1, 'CW', 600.04)
\* was rejected and the pump still has its speed and direction.
C5_Witness ==
    /\ call.op = "assign_speed"
    /\ call.pump = "1"
    /\ call.args[1] = "CW"
    /\ call.args[2] = 60004
    /\ call.err = "ValueError"
    /\ wire = <<>>
    /\ pump_dict["1"].rpm = 1000
    /\ pump_dict["1"].direction = "cw"

\* C6 (as stated): when the pump answers a speed command with the NAK byte
\* 0x15, assign_speed halts the pump and resends the speed command once, the
\* halt before the resend; and no assign_speed call writes more than two
\* speed commands.
C6_NakHaltsThenRetriesOnce ==
    call.op = "assign_speed" =>
        /\ Cardinality(Written("S", call.pump)) <= 2
        /\ (call.args[3] # <<>> /\ call.args[3][1] = "\\x15") =>
              /\ Len(wire) >= 4
              /\ wire[1].cmd = "S"
              /\ wire[3] = Write("H", call.pump, 0)
              /\ wire[4].cmd = "S"
              /\ Cardinality(Written("S", call.pump)) = 2

\* C7: assign_rev with a count that is zero after rounding to two decimals
\* writes nothing on the serial channel, issues no run command and leaves
\* every cumulative-revolution counter unchanged, whatever the run flag.
C7_ZeroRevIsNoop ==
    (/\ call.op = "assign_rev"
     /\ call.args[1] > -5
     /\ call.args[1] < 5)
    => Untouched

\* C7 witness: pump 1 has a speed, so a run would be legal; assign_rev(1,
\* 0.004, run=True) returned normally with nothing written.
C7_Witness ==
    /\ call.op = "assign_rev"
    /\ call.pump = "1"
    /\ call.args = <<4, TRUE>>
    /\ call.err = "ok"
    /\ pump_dict["1"].rpm > 0
    /\ pump_dict["1"].total_rev = 0
    /\ wire = <<>>

\* What C8 promises of a successful assign_rev: one revolutions command for
\* the target pump, its counter increased by the count rounded to two
\* decimals, every other entry of the registry as before, and a run command
\* after the revolutions command exactly when run is true.
OneRevCommand ==
    LET p == call.pump
        rounded == 10 * ((call.args[1] + 5) \div 10)
    IN  /\ Written("V", p) = {1}
        /\ wire[1].arg = rounded
        /\ pump_dict = [prev_dict EXCEPT ![p].total_rev = @ + rounded]
        /\ IF call.args[2]
           THEN wire = <<Write("V", p, rounded), Write("G", p, 0)>>
           ELSE wire = <<Write("V", p, rounded)>>

\* C8 (as stated): a successful assign_rev with a non-zero count writes
\* exactly one revolutions command, adds the rounded count to that pump's
\* counter only, and writes a run command after it iff run is true.
C8_NonZeroRevWritesOneCommand ==
    (/\ call.op = "assign_rev"
     /\ call.err = "ok"
     /\ call.args[1] # 0)
    => OneRevCommand

\* C8 (amended): the same, for a count that is non-zero after rounding to two
\* decimals; a count that rounds to zero writes nothing.
C8_RoundedNonZeroRevWritesOneCommand ==
    (/\ call.op = "assign_rev"
     /\ call.err = "ok"
     /\ call.args[1] >= 5)
    => OneRevCommand

\* C8 witness: assign_rev(2, 1.004, run=False) armed pump 2 with 1.00
\* revolutions: one revolutions command, no run command, pump 2's counter at
\* 1.00 and pump 1's untouched.
C8_Witness ==
    /\ call.op = "assign_rev"
    /\ call.pump = "2"
    /\ call.args = <<1004, FALSE>>
    /\ call.err = "ok"
    /\ wire = <<Write("V", "2", 1000)>>
    /\ prev_dict["2"].total_rev = 0
    /\ pump_dict["2"].total_rev = 1000
    /\ pump_dict["1"].total_rev = 0

\* The last call commanded a registered pump to run: run_pump, assign_rev with
\* run=True and a count that is sent, or dispense_vol of a volume that makes
\* a count that is sent.
CommandedToRun ==
    /\ call.pump \in DOMAIN prev_dict
    /\ prev_dict[call.pump].kind = "Pump"
    /\ \/ call.op = "run_pump"
       \/ call.op = "assign_rev" /\ call.args[1] >= 5 /\ call.args[2]
       \/ /\ call.op = "dispense_vol"
          /\ call.args[1] > 0
          /\ prev_dict[call.pump].vol_per_rev # NoInt

\* C9 (as stated): commanding a pump whose speed was never assigned to run,
\* through run_pump, assign_rev or dispense_vol, is rejected before anything
\* is written, and the pump's counter is unchanged.
C9_UnsetSpeedRejectedBeforeIO ==
    (CommandedToRun /\ prev_dict[call.pump].rpm = 0)
    => /\ call.err = "ValueError"
       /\ wire = <<>>
       /\ pump_dict[call.pump].total_rev = prev_dict[call.pump].total_rev

\* C10: assign_rev with a negative count, dispense_vol with a negative volume,
\* and every per-pump operation on an address that is not in the registry
\* fail, write nothing on the serial channel and leave the registry and every
\* pump's attributes unchanged.
C10_InvalidRequestRejectedBeforeIO ==
    (\/ call.op = "assign_rev" /\ call.args[1] < 0
     \/ call.op = "dispense_vol" /\ call.args[1] < 0
     \/ /\ call.op \in {"assign_speed", "assign_rev", "run_pump", "halt_pump",
                        "check_status", "dispense_vol"}
        /\ call.pump \notin DOMAIN prev_dict)
    => /\ call.err \in {"ValueError", "KeyError", "AttributeError"}
       /\ Untouched

\* C10 witness: both constituents of the virtual pump are ready to dispense
\* (speed and volume per revolution set); dispense_vol(VP3, -1) failed with
\* nothing written and no counter moved.
C10_Witness ==
    /\ call.op = "dispense_vol"
    /\ call.pump = "VP3"
    /\ call.args = <<-100>>
    /\ call.err = "ValueError"
    /\ wire = <<>>
    /\ \A k \in {"1", "2"} :
          /\ pump_dict[k].rpm > 0
          /\ pump_dict[k].vol_per_rev # NoInt
          /\ pump_dict[k].total_rev = 0

(***************************************************************************)
(* The pump link: claims C11 - C19, checked under SpecPump and SpecLink.   *)
(***************************************************************************)
\* The last call addressed a physical pump of the registry.
OnPhysicalPump ==
    /\ call.pump \in DOMAIN prev_dict
    /\ prev_dict[call.pump].kind = "Pump"

\* The last call addressed a virtual pump of the registry.
OnVirtualPump ==
    /\ call.pump \in DOMAIN prev_dict
    /\ prev_dict[call.pump].kind = "VPump"

\* C11: check_status on a registered physical pump whose serial read or write
\* throws a serial-layer exception returns ('Disconnected', 'Disconnected',
\* 'Disconnected') and does not raise.
C11_SerialFailureYieldsDisconnected ==
    (/\ call.op = "check_status"
     /\ OnPhysicalPump
     /\ call.args[1].fail # 0)
    => /\ call.err = "ok"
       /\ call.args[2] = <<"Disconnected", "Disconnected", "Disconnected">>
       /\ pump_dict = prev_dict

\* C11 witness: check_status(1) cleared the buffer and wrote the info request;
\* the read of the reply threw, and the call returned the Disconnected tuple.
C11_Witness ==
    /\ call.op = "check_status"
    /\ call.pump = "1"
    /\ call.args[1].fail = 3
    /\ wire = <<Read, Write("I", "1", 0)>>
    /\ call.err = "ok"
    /\ call.args[2] = <<"Disconnected", "Disconnected", "Disconnected">>

\* C12 (as stated): check_status on a registered physical pump never raises
\* whatever the reply holds: an empty or too short reply, a reply without a
\* five-digit field and a reply whose status characters are outside the
\* decode tables all yield the sentinel tuple.
C12_MalformedReplyYieldsSentinel ==
    (/\ call.op = "check_status"
     /\ OnPhysicalPump
     /\ call.args[1].fail = 0)
    => /\ call.err = "ok"
       /\ call.args[1].reply \in {<<>>, <<"1", "0", "0", "9", "0">>}
             => call.args[2] = <<"", "", "">>

\* C19: run_pump, halt_pump and check_status on an address that resolves to a
\* virtual pump fail with a validation error, nothing written on the serial
\* channel.
C19_VirtualPumpRejectedBeforeIO ==
    (/\ call.op \in {"run_pump", "halt_pump", "check_status"}
     /\ OnVirtualPump)
    => /\ call.err = "ValueError"
       /\ Untouched

\* C19 witness: the virtual pump VP3 stands for pumps 1 and 2, which both have
\* a speed; halt_pump(VP3) was rejected with nothing written.
C19_Witness ==
    /\ call.op = "halt_pump"
    /\ call.pump = "VP3"
    /\ call.err = "ValueError"
    /\ wire = <<>>
    /\ "VP3" \in DOMAIN pump_dict
    /\ pump_dict["VP3"].kind = "VPump"
    /\ pump_dict["1"].rpm > 0
    /\ pump_dict["2"].rpm > 0

\* round(x / v, 2) in thousandths of a revolution, for x hundredths of a mL
\* and v mL per revolution: the multiple of 10 nearest to 10 x / v.
RevsFor(x, v) == 10 * ((20 * x + 10 * v) \div (20 * v))

\* The last call was dispense_vol on a calibrated physical pump, with a
\* volume that is not negative.
CalibratedDispense ==
    /\ call.op = "dispense_vol"
    /\ OnPhysicalPump
    /\ call.args[1] >= 0
    /\ prev_dict[call.pump].vol_per_rev # NoInt

\* The last call was dispense_vol on an uncalibrated physical pump, with a
\* volume that is not negative.
UncalibratedDispense ==
    /\ call.op = "dispense_vol"
    /\ OnPhysicalPump
    /\ call.args[1] >= 0
    /\ prev_dict[call.pump].vol_per_rev = NoInt

ShareRevs(x, pct, v) == 10 * ((2 * x * pct + 100 * v) \div (200 * v))

\* The positions of io at which a run command for pump_num was written.
RunsOf(io, pump_num) ==
    {i \in 1..Len(io) : io[i] = Write("G", pump_num, 0)}

\* The last step started a dispense on a virtual pump whose constituents are
\* two different calibrated physical pumps, with a volume and a ratio that
\* give no negative share.
StartedVirtualDispense ==
    /\ call.op = "dispense_vol"
    /\ OnVirtualPump
    /\ LET vp == prev_dict[call.pump]
       IN  /\ vp.pump_1 # vp.pump_2
           /\ \A k \in {vp.pump_1, vp.pump_2} :
                 prev_dict[k].kind = "Pump" /\ prev_dict[k].vol_per_rev # NoInt
           /\ vp.ratio >= 0 /\ vp.ratio <= 100
    /\ call.args[1] >= 0

C18_DispenseUsesItsOwnConstituents ==
    /\ (call.op = "dispense_vol" /\ OnVirtualPump) =>
          /\ disp.pump_1 = prev_dict[call.pump].pump_1
          /\ disp.pump_2 = prev_dict[call.pump].pump_2
          /\ disp.ratio = prev_dict[call.pump].ratio
    /\ StartedVirtualDispense =>
          /\ \A i \in Written("V", disp.pump_1) :
                wire[i].arg = ShareRevs(disp.volume, disp.ratio,
                                        prev_dict[disp.pump_1].vol_per_rev)
          /\ \A i \in Written("V", disp.pump_2) :
                wire[i].arg = ShareRevs(disp.volume, 100 - disp.ratio,
                                        prev_dict[disp.pump_2].vol_per_rev)
    /\ call.op = "dispense_vol_resumed" =>
          \A i \in 1..Len(wire) :
              wire[i].io = "write" =>
                 \/ wire[i] = Write("I", disp.pump_1, 0)
                 \/ wire[i] = Write("G", disp.pump_2, 0)

\* C18 witness: VP3 stood for pumps 1 and 2 when the dispense armed pump 2;
\* while it slept set_vpump swapped the constituents; after the wait the run
\* command still went to pump 2.
C18_Witness ==
    /\ call.op = "dispense_vol_resumed"
    /\ call.err = "ok"
    /\ disp.vpump = "VP3" /\ disp.pump_1 = "1" /\ disp.pump_2 = "2"
    /\ pump_dict["VP3"].pump_1 = "2" /\ pump_dict["VP3"].pump_2 = "1"
    /\ wire = <<Read, Write("I", "1", 0), Read, Write("G", "2", 0)>>
    /\ Write("V", "2", 500) \in {disp.io[k] : k \in 1..Len(disp.io)}

(***************************************************************************)
(* Construction and shutdown of the link: claims C13 - C15, checked under   *)
(* SpecLink.                                                               *)
(***************************************************************************)
\* The assign commands among the I/O of the last step, in order.
IsAssign(x) == x.io = "write" /\ x.cmd = "P"

AssignsSent == SelectSeq(wire, IsAssign)

\* The replies discovery received to its enquiries and to its assign commands.
EnquiriesHeard == call.args[1]

AssignsHeard == call.args[2]

\* n >= 1 pumps asked for an address, each acknowledged its assign command,
\* and the enquiry after them was answered without '?'.
CleanDiscovery ==
    /\ call.op = "init"
    /\ Len(AssignsHeard) >= 1
    /\ Len(EnquiriesHeard) = Len(AssignsHeard) + 1
    /\ \A k \in 1..Len(AssignsHeard) :
           HasRTS(EnquiriesHeard[k]) /\ AssignsHeard[k] = "\\x06"
    /\ ~HasRTS(EnquiriesHeard[Len(EnquiriesHeard)])

\* C13: after n >= 1 enquire replies with '?', each followed by an ACK to the
\* assign command, and then an enquire reply without '?', construction
\* succeeds, the registry holds exactly the addresses 1..n, the k-th assign
\* command carried address k, and every registered pump is a physical pump
\* with direction unset, rpm 0, calibration unset and no revolutions.
C13_DiscoveryRegistersOneToN ==
    CleanDiscovery =>
        LET n == Len(AssignsHeard)
        IN  /\ call.err = "ok"
            /\ DOMAIN pump_dict = {ToString(k) : k \in 1..n}
            /\ Len(AssignsSent) = n
            /\ \A k \in 1..n : AssignsSent[k].pump = ToString(k)
            /\ \A key \in DOMAIN pump_dict :
                   /\ pump_dict[key].kind = "Pump"
                   /\ pump_dict[key].direction = None
                   /\ pump_dict[key].rpm = 0
                   /\ pump_dict[key].vol_per_rev = NoInt
                   /\ pump_dict[key].total_rev = 0

\* C13 witness: two pumps asked for an address, the second inside a longer
\* message, both acknowledged, and the third enquiry met silence.
C13_Witness ==
    /\ CleanDiscovery
    /\ EnquiriesHeard = <<"?", "\\x02P?\\r", "">>
    /\ AssignsHeard = <<"\\x06", "\\x06">>
    /\ DOMAIN pump_dict = {"1", "2"}

C14_NoPumpsReached ==
    /\ call.op = "init"
    /\ EnquiriesHeard = <<"">>
    /\ call.err = "RuntimeError: no pumps"
    /\ wire = <<Open, Write("ENQ", "", 0), Read, Close>>

\* C15: close() writes a return-to-local-control command for every physical
\* pump of the registry, and closes the port, after all of those commands.
C15_CloseReturnsPumpsToLocalControl ==
    call.op = "close" =>
        /\ \A key \in DOMAIN prev_dict :
               prev_dict[key].kind = "Pump" =>
                   \E i \in 1..Len(wire) : wire[i] = Write("L", key, 0)
        /\ \E j \in 1..Len(wire) :
               /\ wire[j] = Close
               /\ \A i \in 1..Len(wire) : wire[i].cmd = "L" => i < j

\* Where C15 fails: close() on a link with pumps 1 and 2 closed the port
\* without writing to either pump.
C15_ClosedWithoutLocalControl ==
    /\ call.op = "close"
    /\ call.err = "ok"
    /\ DOMAIN prev_dict = {"1", "2"}
    /\ wire = <<Close>>

\* Where C15 fails: with a virtual pump in the registry close() raised and
\* left the port open.
C15_CloseRaisedPortLeftOpen ==
    /\ call.op = "close"
    /\ call.err = "ValueError"
    /\ \E key \in DOMAIN prev_dict : prev_dict[key].kind = "VPump"
    /\ wire = <<>>

(***************************************************************************)
(* The controller loop: claim C20, checked under SpecPID.                  *)
(***************************************************************************)
\* C20 (as stated): update_all replaces the tracked index, the setpoint, the
\* gains, the output limits and the ceiling atomically: a step that changes
\* any of the five leaves all five at the values of one submitted update, and
\* a failed update changes none of them.
C20_UpdateAllIsAtomic ==
    [][<<track_idx, pid.setpoint, pid.tunings, pid.output_limits, max_vol>>
         # <<track_idx', pid'.setpoint, pid'.tunings, pid'.output_limits, max_vol'>>
       => \E u \in Updates :
             /\ track_idx' = ResolveTrack(pred_labels, u.track)
             /\ pid'.setpoint = u.setpoint
             /\ pid'.tunings = u.coeffs
             /\ pid'.output_limits = u.limits
             /\ max_vol' = u.max_vol]_vars

(***************************************************************************)
(* The controller loop: claims C21 - C23, checked under SpecPID.            *)
(***************************************************************************)
\* The limits the PID was working with allow r.
WithinLimits(p, r) == p.output_limits[1] <= r /\ r <= p.output_limits[2]

\* C21: every step that records an output is one whole tick working with the
\* parameters in force when it started: the PID is invoked (or not, by the
\* mode), its output is clipped to that ceiling, appended to the history,
\* logged with that status and the new cumulative sum, and the observer is
\* notified, the parameters being the same after the step; a step that
\* changes a parameter records, logs and notifies nothing; and no two records
\* of the log belong to the same feed event, the records never outnumbering
\* the feed events.
C21_TicksAreNotInterleaved ==
    [][/\ num_event' # num_event =>
            /\ num_event' = num_event + 1
            /\ UNCHANGED <<pid, max_vol, track_idx>>
            /\ last_raw' # <<>>
            /\ IF pid.auto_mode
               THEN pid_calls' = pid_calls + 1 /\ WithinLimits(pid, last_raw'[1])
               ELSE pid_calls' = pid_calls /\ last_raw'[1] = 0
            /\ vol' = Append(vol, IF last_raw'[1] + SumSeq(vol) > max_vol
                                  THEN Max(0, max_vol - SumSeq(vol))
                                  ELSE last_raw'[1])
            /\ Len(log') = Len(log) + 1
            /\ SubSeq(log', 1, Len(log)) = log
            /\ log'[Len(log')].status = GetStatus(pid, pred_labels, track_idx, max_vol)
            /\ log'[Len(log')].output = vol'[Len(vol')]
            /\ log'[Len(log')].cumulative = SumSeq(vol')
            /\ animated' = animated + 1
       /\ (pid' # pid \/ max_vol' # max_vol \/ track_idx' # track_idx) =>
            UNCHANGED <<vol, num_event, log, animated, pid_calls, last_raw>>
       /\ Len(log') <= pred_num_event'
       /\ \A i, j \in 1..Len(log') : i # j => log'[i].date # log'[j].date]_vars

\* C21 witness: two feed events were stored, then two ticks ran with a
\* parameter update between them: each record carries the parameters of its
\* own tick and its own feed event.
C21_Witness ==
    /\ pred_num_event = 2
    /\ num_event = 2
    /\ Len(log) = 2
    /\ log[1].date = 1
    /\ log[2].date = 2
    /\ log[1].status.setpoint = 40
    /\ log[2].status.setpoint = 50
    /\ log[1].status.status = "Enabled"
    /\ log[1].output = 900
    /\ animated = 2

\* C22: the log only grows, by one record per recorded output: after every
\* step it keeps the records it had, it has as many records as the event
\* counter says, the Output field of the k-th record is the k-th recorded
\* output and its Cumulative field is the sum of the first k outputs.
C22_LogFollowsHistory ==
    [][/\ Len(log') >= Len(log)
       /\ SubSeq(log', 1, Len(log)) = log
       /\ Len(log') = num_event'
       /\ Len(vol') = num_event'
       /\ \A k \in 1..Len(log') :
            /\ log'[k].output = vol'[k]
            /\ log'[k].cumulative = SumSeq(SubSeq(vol', 1, k))]_vars

\* C22 witness: two records, the first with a positive output, the second
\* clipped to what the ceiling left.
C22_Witness ==
    /\ num_event = 2
    /\ Len(log) = 2
    /\ log[1].output = 900
    /\ log[1].cumulative = 900
    /\ log[2].output = 100
    /\ log[2].cumulative = 1000
    /\ vol = <<900, 100>>

\* C23: the controller starts Disabled; a step that changes the mode changes
\* nothing else of the controller (history, counter, ceiling, log, the other
\* settings); a tick in Disabled mode records 0 without invoking the PID, a
\* tick in Enabled mode invokes it and records its clipped output; and no
\* step alters an output recorded earlier.
C23_ModeAppliesFromNextTick ==
    /\ ~pid.auto_mode
    /\ [][/\ pid'.auto_mode # pid.auto_mode =>
               /\ pid' = [pid EXCEPT !.auto_mode = ~pid.auto_mode]
               /\ UNCHANGED <<vol, num_event, max_vol, track_idx, log, pid_calls>>
          /\ num_event' # num_event =>
               /\ pid'.auto_mode = pid.auto_mode
               /\ IF pid.auto_mode
                  THEN /\ pid_calls' = pid_calls + 1
                       /\ log'[Len(log')].status.status = "Enabled"
                  ELSE /\ pid_calls' = pid_calls
                       /\ vol'[Len(vol')] = 0
                       /\ log'[Len(log')].status.status = "Disabled"
          /\ Len(vol') >= Len(vol)
          /\ SubSeq(vol', 1, Len(vol)) = vol]_vars

\* C23 witness: enabled, one tick recorded 5.00 mL; disabled, the next tick
\* recorded 0 and left the first output in place.
C23_Witness ==
    /\ ~pid.auto_mode
    /\ vol = <<500, 0>>
    /\ pid_calls = 1
    /\ Len(log) = 2
    /\ log[1].status.status = "Enabled"
    /\ log[2].status.status = "Disabled"
    /\ log[2].cumulative = 500

C25_OnlyTheDispenseUsesTheChannel ==
    (disp.pc = "wait" /\ wire # <<>>) =>
        /\ call.op \in {"dispense_vol", "dispense_vol_resumed"}
        /\ call.pump = disp.vpump

\* Where C25 fails: the dispense of VP3 is suspended and a status request for
\* pump 1 went over the channel.
C25_StatusRequestDuringDispense ==
    /\ disp.pc = "wait"
    /\ disp.vpump = "VP3"
    /\ call.op = "check_status"
    /\ call.pump = "1"
    /\ wire = <<Read, Write("I", "1", 0), Read>>

(***************************************************************************)
(* The registry and the link: claims C26 - C30, checked under SpecLink.     *)
(***************************************************************************)
\* C26: close() raises nothing and the port is closed when it returns,
\* whatever the registry holds.
C26_CloseIsSafe ==
    call.op = "close" =>
        /\ call.err = "ok"
        /\ wire # <<>>
        /\ wire[Len(wire)] = Close

\* The virtual pumps of a registry.
VPumpsOf(d) == {k \in DOMAIN d : d[k].kind = "VPump"}

\* The address names a physical pump of the registry.
IsPhysicalIn(d, pump_num) == pump_num \in DOMAIN d /\ d[pump_num].kind = "Pump"

\* C27: both constituents of every virtual pump of the registry are
\* registered physical pumps, and an add_vpump or set_vpump call that names
\* a constituent which is missing or virtual fails and leaves the registry
\* as it was.
C27_ConstituentsArePhysical ==
    /\ \A k \in VPumpsOf(pump_dict) :
           /\ IsPhysicalIn(pump_dict, pump_dict[k].pump_1)
           /\ IsPhysicalIn(pump_dict, pump_dict[k].pump_2)
    /\ (call.op = "add_vpump"
          /\ ~(IsPhysicalIn(prev_dict, call.pump) /\ IsPhysicalIn(prev_dict, call.args[1])))
         => (call.err # "ok" /\ pump_dict = prev_dict)
    /\ (call.op = "set_vpump"
          /\ ~(IsPhysicalIn(prev_dict, call.args[1]) /\ IsPhysicalIn(prev_dict, call.args[2])))
         => (call.err # "ok" /\ pump_dict = prev_dict)

\* Where C27 fails: set_vpump made VP3 its own first constituent.
C27_VirtualConstituentAccepted ==
    /\ call.op = "set_vpump"
    /\ call.err = "ok"
    /\ "VP3" \in DOMAIN pump_dict
    /\ pump_dict["VP3"].pump_1 = "VP3"

\* Where C27 fails: set_vpump failed on its second constituent after it had
\* replaced the first.
C27_RejectedCallChangedVPump ==
    /\ call.op = "set_vpump"
    /\ call.err = "KeyError"
    /\ call.args[2] = "9"
    /\ pump_dict # prev_dict

\* The highest address of a pump on the chain.
MaxAddress == 25

\* C28: every physical pump of the registry has an address in 1..25, and
\* discovery sends no assign command for an address above 25.
C28_AddressesAtMost25 ==
    /\ \A k \in DOMAIN pump_dict :
           pump_dict[k].kind = "Pump" => k \in {ToString(n) : n \in 1..MaxAddress}
    /\ call.op = "init" =>
           \A i \in 1..Len(AssignsSent) :
               AssignsSent[i].pump \in {ToString(n) : n \in 1..MaxAddress}

\* Where C28 fails: 26 pumps asked for an address and the 26th got one.
C28_Address26Registered ==
    /\ call.op = "init"
    /\ call.err = "ok"
    /\ "26" \in DOMAIN pump_dict
    /\ pump_dict["26"].kind = "Pump"

\* The keys discovery gives and the keys add_vpump gives.
NumericKeys == {ToString(n) : n \in 1..(MaxChain + MaxLinkVPumps + 1)}

VirtualKeys == {"VP" \o ToString(n) : n \in 1..(MaxChain + MaxLinkVPumps + 1)}

\* C29: a physical pump is registered under the number discovery assigned to
\* it and a virtual pump under a 'VPk' key; a successful add_vpump adds one
\* virtual pump under a key that was not in the registry and leaves every
\* other entry as it was, a failed one changes nothing; set_vpump adds and
\* removes no key, changes the kind of no entry and leaves the physical pumps
\* as they were; construction registers physical pumps only.
C29_KeysAreUniqueAndKindsStable ==
    /\ \A k \in DOMAIN pump_dict :
           IF pump_dict[k].kind = "Pump"
           THEN k \in NumericKeys /\ pump_dict[k].ID = k
           ELSE pump_dict[k].kind = "VPump" /\ k \in VirtualKeys
    /\ call.op = "init" => VPumpsOf(pump_dict) = {}
    /\ (call.op = "add_vpump" /\ call.err = "ok") =>
           \E key \in DOMAIN pump_dict :
               /\ key \notin DOMAIN prev_dict
               /\ DOMAIN pump_dict = DOMAIN prev_dict \cup {key}
               /\ pump_dict[key].kind = "VPump"
               /\ \A k \in DOMAIN prev_dict : pump_dict[k] = prev_dict[k]
    /\ (call.op = "add_vpump" /\ call.err # "ok") => pump_dict = prev_dict
    /\ call.op = "set_vpump" =>
           /\ DOMAIN pump_dict = DOMAIN prev_dict
           /\ \A k \in DOMAIN prev_dict :
                  /\ pump_dict[k].kind = prev_dict[k].kind
                  /\ prev_dict[k].kind = "Pump" => pump_dict[k] = prev_dict[k]

\* C29 witness: on a link with pumps 1 and 2 a second virtual pump was added
\* as VP4 beside VP3, which is as it was.
C29_Witness ==
    /\ call.op = "add_vpump"
    /\ call.err = "ok"
    /\ DOMAIN pump_dict = {"1", "2", "VP3", "VP4"}
    /\ DOMAIN prev_dict = {"1", "2", "VP3"}
    /\ pump_dict["VP3"] = prev_dict["VP3"]
    /\ pump_dict["VP4"].kind = "VPump"

\* The reply contains '?'.
ContainsQuestionMark(reply) == reply \in {"?", "\\x02P?\\r"}

\* The enquiries written during the last step.
IsEnquiry(x) == x.io = "write" /\ x.cmd = "ENQ"

EnquiriesSent == SelectSeq(wire, IsEnquiry)

\* C30: a construction that opened the port sent one enquiry per reply it
\* heard and one assign command per reply that contained '?', each right
\* after the read of that reply; every reply but the last contained '?'; and
\* when the last reply contained none, nothing was assigned after it and
\* construction ended there, with success if a pump was registered and with
\* the port closed and the 'no pumps' failure if none was.
C30_DiscoveryStopsAtFirstReplyWithoutRTS ==
    (call.op = "init" /\ wire # <<>>) =>
        LET heard == EnquiriesHeard
            last == heard[Len(heard)]
        IN  /\ Len(heard) >= 1
            /\ Len(EnquiriesSent) = Len(heard)
            /\ Len(AssignsSent) =
                   Cardinality({k \in 1..Len(heard) : ContainsQuestionMark(heard[k])})
            /\ \A k \in 1..(Len(heard) - 1) : ContainsQuestionMark(heard[k])
            /\ \A i \in 1..Len(wire) :
                   IsAssign(wire[i]) =>
                       /\ i > 2
                       /\ IsEnquiry(wire[i - 2])
                       /\ wire[i - 1] = Read
            /\ ~ContainsQuestionMark(last) =>
                   /\ Len(AssignsSent) = Len(heard) - 1
                   /\ Len(AssignsHeard) = Len(heard) - 1
                   /\ IF DOMAIN pump_dict # {}
                      THEN /\ call.err = "ok"
                           /\ wire[Len(wire)] = Read
                           /\ IsEnquiry(wire[Len(wire) - 1])
                      ELSE /\ call.err = "RuntimeError: no pumps"
                           /\ wire[Len(wire)] = Close

\* C30 witness: two pumps asked for an address, the third enquiry was
\* answered with a byte that is no request, and construction succeeded with
\* two assign commands sent.
C30_Witness ==
    /\ call.op = "init"
    /\ call.err = "ok"
    /\ EnquiriesHeard = <<"?", "?", "\\x06">>
    /\ Len(AssignsSent) = 2
    /\ Len(EnquiriesSent) = 3
    /\ DOMAIN pump_dict = {"1", "2"}

\* A second case of C30: the chain of MaxChain pumps, then silence.
C30_LongChainReached ==
    /\ call.op = "init"
    /\ call.err = "ok"
    /\ Len(EnquiriesHeard) = MaxChain + 1
    /\ EnquiriesHeard[MaxChain + 1] = ""
    /\ Len(AssignsSent) = MaxChain


(***************************************************************************)
(* The controller loop: claims C31 - C33, checked under SpecPID.           *)
(***************************************************************************)
\* C31: the controller's event counter never exceeds the feed's counter and
\* never decreases; a tick raises it by exactly one when it is behind the
\* feed and leaves it alone otherwise, and nothing else changes it; the
\* output history is append-only: whatever the step (tick, toggle, parameter
\* update, feed event), the outputs recorded so far stay as they are and
\* where they are, one output per counted event.
C31_CounterFollowsFeedAndHistoryIsAppendOnly ==
    [][/\ num_event' <= pred_num_event'
       /\ num_event' >= num_event
       /\ TriggerPID =>
            num_event' = IF num_event < pred_num_event
                         THEN num_event + 1
                         ELSE num_event
       /\ num_event' # num_event =>
            /\ num_event < pred_num_event
            /\ num_event' = num_event + 1
            /\ last_tick' = "recorded"
       /\ Len(vol') = num_event'
       /\ \A k \in 1..Len(vol) : k <= Len(vol') /\ vol'[k] = vol[k]]_vars

\* C31 witness: two outputs that differ were recorded in two ticks, a
\* parameter update came after them, and the last tick found the controller
\* level with the feed and did nothing.
C31_Witness ==
    /\ num_event = 2
    /\ pred_num_event = 2
    /\ vol = <<900, 100>>
    /\ pid.setpoint = 50
    /\ last_tick = "noop"

\* C32: the record a tick writes carries the timestamp of the last
\* measurement the feed holds at the time of the tick, the measurement whose
\* value went into the PID's input.  (Right after a recording tick, before
\* another feed event, the feed is as the tick saw it.)
C32_LogDateIsLatestMeasurement ==
    (last_tick = "recorded" /\ last_feed = "none") =>
        /\ log # <<>>
        /\ pred_dates # <<>>
        /\ log[Len(log)].date = pred_dates[Len(pred_dates)]

\* Where C32 fails: two feed events came before the first tick; the record
\* of that tick carries the first timestamp while its input is the average
\* over both measurements.
C32_RecordDatedBeforeItsInput ==
    /\ last_tick = "recorded"
    /\ last_feed = "none"
    /\ pred_num_event = 2
    /\ num_event = 1
    /\ log[1].date = 1
    /\ pred_dates[Len(pred_dates)] = 2
    /\ log[1].input = Average(pred_values, track_idx)
    /\ log[1].input[2] = 2

\* C33: once the sum of the recorded outputs has reached the ceiling, a tick
\* that records an output records 0, whatever the PID put out, the ceiling
\* being the one in force at that tick.
C33_ZeroOnceCeilingReached ==
    [][(SumSeq(vol) >= max_vol /\ Len(vol') = Len(vol) + 1) =>
          vol'[Len(vol')] = 0]_vars

\* Where C33 fails: the first output filled the ceiling, the lower output
\* limit was then made negative with the ceiling left where it was, and the
\* next tick recorded a negative output.
C33_NegativeOutputAfterCeiling ==
    /\ Len(vol) = 2
    /\ vol[1] = max_vol
    /\ vol[2] < 0
    /\ last_raw = <<vol[2]>>


(***************************************************************************)
(* The virtual-pump dispense: claims C34 - C36, checked under SpecPump.    *)
(***************************************************************************)
\* The positions of io at which a revolutions command for pump_num was
\* written.
CountsOf(io, pump_num) ==
    {i \in 1..Len(io) :
        io[i].io = "write" /\ io[i].cmd = "V" /\ io[i].pump = pump_num}

\* C34: in a virtual-pump dispense a run command is written to a pump only
\* after a revolutions command was written to that pump in the same dispense;
\* a constituent whose share rounds to zero revolutions gets no run command.
C34_RunOnlyAfterRevolutions ==
    disp.vpump # "" =>
        \A pump_num \in {disp.pump_1, disp.pump_2} :
            \A i \in RunsOf(disp.io, pump_num) :
                \E j \in CountsOf(disp.io, pump_num) : j < i

\* Where C34 fails: a dispense of volume 0 wrote no revolutions command at
\* all and still ran pump 2 after the wait.
C34_RunWithoutRevolutions ==
    /\ disp.vpump # ""
    /\ disp.volume = 0
    /\ CountsOf(disp.io, disp.pump_1) = {}
    /\ CountsOf(disp.io, disp.pump_2) = {}
    /\ RunsOf(disp.io, disp.pump_1) = {}
    /\ RunsOf(disp.io, disp.pump_2) # {}

\* The run statuses check_status can decode.
DecodedRunStatuses == {StatusDict(3, ch) : ch \in Digits} \ {""}

\* C35: in a virtual-pump dispense pump 2 is run only when the last poll of
\* pump 1 was decoded to a run status other than 'Running'; a poll that gave
\* the 'Disconnected' sentinel or no decodable status neither runs pump 2 nor
\* ends the dispense with pump 2 armed and not run.
C35_OnlyDecodedStatusReleasesPump2 ==
    (disp.vpump # "" /\ disp.status # <<>>) =>
        LET last == disp.status[Len(disp.status)]
        IN  /\ RunsOf(disp.io, disp.pump_2) # {} =>
                  last \in DecodedRunStatuses \ {"Running"}
            /\ (disp.pc = "idle" /\ last \notin DecodedRunStatuses) =>
                  ~(CountsOf(disp.io, disp.pump_2) # {}
                        /\ RunsOf(disp.io, disp.pump_2) = {})

\* Where C35 fails: the poll of pump 1 gave the 'Disconnected' sentinel and
\* pump 2 was run.
C35_DisconnectedReleasedPump2 ==
    /\ disp.vpump # ""
    /\ disp.status # <<>>
    /\ disp.status[Len(disp.status)] = "Disconnected"
    /\ CountsOf(disp.io, disp.pump_2) # {}
    /\ RunsOf(disp.io, disp.pump_2) # {}

\* Where C35 fails: the reply to the poll held no status, check_status raised
\* and the dispense ended with pump 2 armed and never run.
C35_AbortedWithPump2Armed ==
    /\ disp.vpump # ""
    /\ disp.pc = "idle"
    /\ disp.status # <<>>
    /\ disp.status[Len(disp.status)] = "AttributeError"
    /\ disp.err = "AttributeError"
    /\ CountsOf(disp.io, disp.pump_2) # {}
    /\ RunsOf(disp.io, disp.pump_2) = {}

\* The dispense failed for a reason its call could have read from the
\* registry: vol_to_rev raised (no calibration, a negative share) before
\* the wait, or run_pump raised (no speed assigned).
FailedOnLocalState ==
    /\ disp.vpump # ""
    /\ disp.pc = "idle"
    /\ \/ disp.err = "ValueError"
       \/ disp.err = "AttributeError" /\ disp.status = <<>>

\* C36: a virtual-pump dispense that fails on local state has sent no run
\* command to either constituent and has changed no cumulative-revolution
\* counter (it has written no revolutions command).
C36_FailedDispenseRanNothing ==
    FailedOnLocalState =>
        /\ \A pump_num \in {disp.pump_1, disp.pump_2} :
              /\ RunsOf(disp.io, pump_num) = {}
              /\ CountsOf(disp.io, pump_num) = {}
        /\ call.op = "dispense_vol" =>
              \A k \in DOMAIN pump_dict :
                  pump_dict[k].kind = "Pump" =>
                      pump_dict[k].total_rev = prev_dict[k].total_rev

\* Where C36 fails: pump 2 has no speed; pump 1 was run, pump 2 armed, and
\* after the wait run_pump raised.
C36_FailedAfterPump1Ran ==
    /\ FailedOnLocalState
    /\ disp.err = "ValueError"
    /\ RunsOf(disp.io, disp.pump_1) # {}
    /\ CountsOf(disp.io, disp.pump_2) # {}
    /\ RunsOf(disp.io, disp.pump_2) = {}

\* Where C36 fails: pump 1 has no speed; its revolutions were written and
\* counted, then run_pump raised before anything ran.
C36_FailedWithRevolutionsCounted ==
    /\ FailedOnLocalState
    /\ call.op = "dispense_vol"
    /\ disp.io = <<Write("V", disp.pump_1, 500)>>
    /\ pump_dict[disp.pump_1].total_rev = prev_dict[disp.pump_1].total_rev + 500


(***************************************************************************)
(* Termination of the virtual-pump dispense: claim C37, checked under      *)
(* SpecDispense.                                                           *)
(***************************************************************************)
\* The dispense has ended after a poll of pump 1 that returned a status
\* other than 'Running' (the poll did not raise).
Released ==
    /\ disp.vpump # ""
    /\ disp.pc = "idle"
    /\ disp.status # <<>>
    /\ disp.status[Len(disp.status)]
          \notin {"Running", "AttributeError", "ValueError", "SerialException"}

\* C37: a suspended virtual-pump dispense eventually ends, and when pump 1
\* has reported a status other than 'Running' it has written pump 2's run
\* command exactly once and returned normally.
C37_DispenseCompletesAndRunsPump2Once ==
    /\ (disp.pc = "wait") ~> (disp.pc = "idle")
    /\ [](Released =>
            /\ disp.err = "ok"
            /\ Cardinality(RunsOf(disp.io, disp.pump_2)) = 1)

\* The part of C37 that holds: a suspended dispense eventually ends.
C37_DispenseTerminates == (disp.pc = "wait") ~> (disp.pc = "idle")

\* Where C37 fails: pump 1 was reported idle, pump 2 has no speed assigned,
\* run_pump raised and no run command was written.
C37_ReleasedWithoutRun ==
    /\ Released
    /\ disp.err = "ValueError"
    /\ pump_dict[disp.pump_2].rpm = 0
    /\ RunsOf(disp.io, disp.pump_2) = {}

\* Between two polls another callback ran on the event loop.
C37_OtherTaskRanDuringWait ==
    /\ disp.pc = "wait"
    /\ call.op = "halt_pump"
    /\ call.err = "ok"


(***************************************************************************)
(* Failed construction and the virtual-pump rows: claims C38 - C40.        *)
(***************************************************************************)
\* The constructor opened the port and then raised.
ConstructionFailedAfterOpen ==
    /\ call.op = "init"
    /\ call.err # "ok"
    /\ wire # <<>>
    /\ wire[1] = Open

\* C38: whenever construction of the link fails after the port was opened
\* (no pump discovered, or an address assignment not acknowledged), the port
\* has been closed when the failure reaches the caller.  Checked under
\* SpecLink.
C38_FailedConstructionReleasesPort ==
    ConstructionFailedAfterOpen => wire[Len(wire)] = Close

\* Where C38 fails: one pump was registered, the second assignment was not
\* acknowledged, and the constructor raised with the port open.
C38_NotAcknowledgedPortLeftOpen ==
    /\ ConstructionFailedAfterOpen
    /\ call.err = "RuntimeError: not acknowledged"
    /\ Len(AssignsSent) = 2
    /\ \A i \in 1..Len(wire) : wire[i] # Close

\* The half of C38 that holds: no pump answered and the port was closed
\* before the constructor raised.
C38_NoPumpsPortClosed ==
    /\ ConstructionFailedAfterOpen
    /\ call.err = "RuntimeError: no pumps"
    /\ wire[Len(wire)] = Close


\* C39: the virtual pump that 'Update' on a row creates or changes is the
\* registry entry under the id of that row: after set_vpump_values(row,
\* vpump_id) returned normally the registry holds under vpump_id the virtual
\* pump the row describes, and every other entry is as it was (none created,
\* none overwritten).  Checked under SpecTab.
C39_RowUpdatesItsOwnVPump ==
    (call.op = "set_vpump_values" /\ call.err = "ok") =>
        /\ call.pump \in DOMAIN pump_dict
        /\ pump_dict[call.pump] = NewVPump(call.args[1], call.args[2], call.args[3])
        /\ \A k \in DOMAIN pump_dict \ {call.pump} :
              k \in DOMAIN prev_dict /\ pump_dict[k] = prev_dict[k]

\* Where C39 fails: two rows were created, VP3 and VP4; 'Update' on the
\* second one created its virtual pump under the key of the first.
C39_SecondRowStoredUnderFirstKey ==
    /\ Len(tab.rows) >= 2
    /\ call.op = "set_vpump_values"
    /\ call.pump = "VP4"
    /\ call.err = "ok"
    /\ "VP3" \in DOMAIN pump_dict
    /\ "VP3" \notin DOMAIN prev_dict
    /\ "VP4" \notin DOMAIN pump_dict

\* Where C39 fails: 'Update' on the first row then overwrote the virtual
\* pump the second row had created.
C39_RowOverwroteAnotherRow ==
    /\ call.op = "set_vpump_values"
    /\ call.pump = "VP3"
    /\ call.err = "ok"
    /\ "VP3" \in DOMAIN prev_dict
    /\ "VP4" \in DOMAIN pump_dict
    /\ pump_dict["VP3"] # prev_dict["VP3"]
    /\ pump_dict["VP4"].ratio # pump_dict["VP3"].ratio


\* C40: assign_speed and assign_rev on an address that resolves to a virtual
\* pump fail with a validation error before anything is written, and the
\* only call on a virtual pump's address that reaches the serial channel or
\* returns normally from a pump operation is dispense_vol (set_vpump, the
\* registry operation that names the virtual pump it changes, performs no
\* I/O).  Checked under SpecPump.
C40_OnlyDispenseAcceptsVirtualPump ==
    OnVirtualPump =>
        /\ call.op \in {"assign_speed", "assign_rev"} =>
              call.err = "ValueError" /\ Untouched
        /\ call.op \notin {"dispense_vol", "dispense_vol_resumed"} => wire = <<>>
        /\ call.op \notin {"dispense_vol", "dispense_vol_resumed", "set_vpump"} =>
              call.err # "ok" /\ pump_dict = prev_dict

\* C40 witness: VP3 stands for pumps 1 and 2; assign_rev(VP3, 1.004, run)
\* was rejected with nothing written.
C40_Witness ==
    /\ call.op = "assign_rev"
    /\ call.pump = "VP3"
    /\ call.args = <<1004, TRUE>>
    /\ call.err = "ValueError"
    /\ wire = <<>>
    /\ "VP3" \in DOMAIN prev_dict
    /\ prev_dict["VP3"].kind = "VPump"
    /\ pump_dict = prev_dict

\* assign_speed(VP3, 'CW', 10.04), a valid direction and a valid speed, was
\* rejected likewise.
C40_SpeedRejectedOnVirtualPump ==
    /\ call.op = "assign_speed"
    /\ call.pump = "VP3"
    /\ call.args[1] = "CW"
    /\ call.args[2] = 1004
    /\ call.err = "ValueError"
    /\ wire = <<>>
    /\ "VP3" \in DOMAIN prev_dict
    /\ prev_dict["VP3"].kind = "VPump"

====
